---- MODULE Spec2Model ----
(***************************************************************************)
(* A model of the vcpu virtual processor: the processor shell              *)
(* (src/src/processor.rs), its decode/dispatch step                        *)
(* (src/src/processor/logic.rs), the plain buffer storage                  *)
(* (src/src/memory.rs), the composite storage                              *)
(* (src/src/memory/composite.rs) and the observed storage                  *)
(* (src/src/memory/io.rs).                                                 *)
(*                                                                         *)
(* Representation of 32-bit values.  TLC's integers are 32-bit signed, so  *)
(* every u32/i32 of the program is held as its two's-complement signed     *)
(* value in -2^31 .. 2^31-1 (the i32 view of the register union).  The     *)
(* u32 0xFFFF_FFFF is therefore held as -1.  Operators below compute the   *)
(* wrapping 32-bit operations on that representation without any           *)
(* intermediate value leaving the 32-bit range; the unsigned comparisons   *)
(* (ULt, ULe) compare the u32 views.                                       *)
(***************************************************************************)
EXTENDS Integers, Sequences, FiniteSets, TLC

VARIABLES
    registers,        \* Processor.registers: [0..31 -> word]
    program_counter,  \* Processor.program_counter
    state,            \* Processor.state: "None" or an ExitCode
    instructions,     \* the instruction buffer the host passes to tick
    storage,          \* the storage the host passes to tick / operates on
    fragments,        \* CompositeMemory.fragments: sequence of [addr, frag]
    registry,         \* CompositeMemory.registry: key -> index
    overflow_checks,  \* build profile: TRUE when `+` on u32 panics on overflow
    panicked,         \* TRUE once a call has panicked
    steps,            \* number of host calls made so far
    assembler,        \* the assembler's pass state (vasm), see AsmInit
    last              \* the last host call: its arguments, pre-state and result

vars == << registers, program_counter, state, instructions, storage, fragments,
           registry, overflow_checks, panicked, steps, assembler, last >>

\* ------------------------------------------------------------------------
\* Program constants (src/src/constants.rs); the masks are written as the
\* signed value of their bit pattern
\* ------------------------------------------------------------------------
BYTE_BYTES == 1
HALF_BYTES == 2
WORD_BYTES == 4
REGISTER_COUNT == 32
OPCODE_OFFSET == 26
RD_OFFSET == 21
RS1_OFFSET == 16
RS2_OFFSET == 11
FUNCT_OFFSET == 0
IMMEDIATE_OFFSET == 0
ADDRESS_OFFSET == 0
OPCODE_MASK == -67108864
RD_MASK == 65011712
RS1_MASK == 2031616
RS2_MASK == 63488
FUNCT_MASK == 63
IMMEDIATE_MASK == 65535
ADDRESS_MASK == 67108863
ADDRESS_SIGN_MASK == 33554432
ADDRESS_EXTENSION == -67108864
LOW_BITS_MASK == 65535
HIGH_BITS_MASK == -65536

\* ------------------------------------------------------------------------
\* 32-bit words
\* ------------------------------------------------------------------------
MinI32 == -2147483647 - 1
MaxI32 == -(MinI32 + 1)

Pow2(n) == 2 ^ n

\* the low and the high 16 bits of a word, as naturals in 0..65535
LoHalf(x) == x % 65536
HiHalf(x) == (x \div 65536) % 65536

\* the word with the given halves
FromHalves(h, l) == (IF h >= 32768 THEN h - 65536 ELSE h) * 65536 + l

\* byte i (0 = least significant) of a word, in 0..255
ByteOf(x, i) == (x \div Pow2(8 * i)) % 256

\* Endian::read_u32 / read_uint of at most 4 little-endian bytes, zero-padded
FromBytes(bs) ==
    LET b(i) == IF i <= Len(bs) THEN bs[i] ELSE 0
    IN FromHalves(b(4) * 256 + b(3), b(2) * 256 + b(1))

\* Endian::write_uint: the size low bytes of a word, little-endian
ToBytes(x, size) == [i \in 1..size |-> ByteOf(x, i - 1)]

\* the comparison of two words as i32
ULt_signed(a, b) == a < b

\* u32 comparison of two words
ULt(a, b) == IF (a >= 0) = (b >= 0) THEN a < b ELSE a >= 0
ULe(a, b) == a = b \/ ULt(a, b)

\* wrapping_add, wrapping_sub, bitwise not
Add32(a, b) ==
    LET lo == LoHalf(a) + LoHalf(b)
        hi == (HiHalf(a) + HiHalf(b) + lo \div 65536) % 65536
    IN FromHalves(hi, lo % 65536)
\* the mask left as it is: the half a load replaces is not cleared
Not32_kept(a) == a
Not32(a) == (-1) - a
Sub32_added(a, b) == Add32(a, b)
Sub32(a, b) == Add32(Add32(a, Not32(b)), 1)

\* true when the u32 sum a + b does not fit 32 bits (checked_add fails,
\* `+` panics in a debug build and wraps in a release build)
UAddOverflows(a, b) == ULt(Add32(a, b), a)

\* bitwise operations: on n-bit naturals bit by bit, tabulated for 4 bits,
\* then on 16-bit naturals and on words
RECURSIVE BitOpBits(_, _, _, _)
BitOpBits(op, x, y, n) ==
    IF n = 0 THEN 0
    ELSE LET bx == x % 2
             by == y % 2
             r == CASE op = "and" -> bx * by
                    [] op = "or"  -> IF bx + by > 0 THEN 1 ELSE 0
                    [] op = "xor" -> (bx + by) % 2
         IN r + 2 * BitOpBits(op, x \div 2, y \div 2, n - 1)
NibbleOps ==
    [op \in {"and", "or", "xor"} |->
        [x \in 0..15 |-> [y \in 0..15 |-> BitOpBits(op, x, y, 4)]]]
BitOp16(op, x, y) ==
    LET t == NibbleOps[op]
    IN t[x % 16][y % 16]
       + 16 * t[(x \div 16) % 16][(y \div 16) % 16]
       + 256 * t[(x \div 256) % 16][(y \div 256) % 16]
       + 4096 * t[x \div 4096][y \div 4096]
BitOp32(op, a, b) ==
    FromHalves(BitOp16(op, HiHalf(a), HiHalf(b)),
               BitOp16(op, LoHalf(a), LoHalf(b)))
And32(a, b) == BitOp32("and", a, b)
Or32(a, b) == BitOp32("or", a, b)
Xor32(a, b) == BitOp32("xor", a, b)

\* wrapping shifts by n in 0..31
Shl32(a, n) ==
    IF n >= 16
    THEN FromHalves((LoHalf(a) * Pow2(n - 16)) % 65536, 0)
    ELSE LET l == LoHalf(a) * Pow2(n)
             h == HiHalf(a) * Pow2(n) + l \div 65536
         IN FromHalves(h % 65536, l % 65536)
Shr32(a, n) ==
    IF n >= 16
    THEN FromHalves(0, HiHalf(a) \div Pow2(n - 16))
    ELSE FromHalves(HiHalf(a) \div Pow2(n),
                    (HiHalf(a) % Pow2(n)) * Pow2(16 - n) + LoHalf(a) \div Pow2(n))
\* the shift right that fills with zeros
Sar32_logical(a, n) == Shr32(a, n)
Sar32(a, n) == IF n = 31 THEN (IF a < 0 THEN -1 ELSE 0) ELSE a \div Pow2(n)

\* the 64-bit product of two u32 views, as 8 little-endian bytes
UMulBytes(a, b) ==
    LET col(k) ==
            LET S == {i \in 0..3 : k - i \in 0..3}
                RECURSIVE sum(_)
                sum(T) == IF T = {} THEN 0
                          ELSE LET i == CHOOSE i \in T : TRUE
                               IN ByteOf(a, i) * ByteOf(b, k - i) + sum(T \ {i})
            IN sum(S)
        RECURSIVE carry(_)
        carry(k) == IF k < 0 THEN 0 ELSE (col(k) + carry(k - 1)) \div 256
    IN [k \in 1..8 |-> (col(k - 1) + carry(k - 2)) % 256]

\* i64 product of two i32: its low 32 bits and its high 32 bits (>> 32)
MulLo(a, b) == FromBytes(SubSeq(UMulBytes(a, b), 1, 4))
\* the high word of the product of the u32 views
MulHi_unsigned(a, b) == FromBytes(SubSeq(UMulBytes(a, b), 5, 8))
MulHi(a, b) ==
    LET uh == FromBytes(SubSeq(UMulBytes(a, b), 5, 8))
        c1 == IF a < 0 THEN b ELSE 0
        c2 == IF b < 0 THEN a ELSE 0
    IN Sub32(Sub32(uh, c1), c2)

\* Wrapping<i32> division and remainder (truncated toward zero), divisor # 0;
\* i32::MIN / -1 wraps to i32::MIN with remainder 0
Div32(a, b) ==
    IF b = MinI32 THEN (IF a = MinI32 THEN 1 ELSE 0)
    ELSE IF b = -1 /\ a = MinI32 THEN MinI32
    ELSE LET nb == IF b < 0 THEN -b ELSE b
             fq == a \div nb
             tq == IF a < 0 /\ a % nb # 0 THEN fq + 1 ELSE fq
         IN IF b < 0 THEN -tq ELSE tq
\* the remainder taken non-negative (Euclidean), not with the sign of the
\* dividend
Rem32_euclid(a, b) ==
    IF b = MinI32 THEN (IF a = MinI32 THEN 0 ELSE a)
    ELSE a % (IF b < 0 THEN -b ELSE b)
Rem32(a, b) ==
    IF b = MinI32 THEN (IF a = MinI32 THEN 0 ELSE a)
    ELSE LET nb == IF b < 0 THEN -b ELSE b
             m == a % nb
         IN IF a < 0 /\ m # 0 THEN m - nb ELSE m

\* ------------------------------------------------------------------------
\* ISA model (src/src/instructions.rs)
\* ------------------------------------------------------------------------
\* the enums in declaration order; a variant's number is its position - 1
Opcode ==
    << "NOP", "ALU", "HALT", "CALL", "COPY", "LI", "LHI", "SLO", "SHI",
       "LB", "LH", "LW", "SB", "SH", "SW", "ADDI", "SUBI", "MULI", "DIVI",
       "ANDI", "ORI", "XORI", "FLIP", "SLLI", "SRLI", "SRAI", "SEQI", "SNEI",
       "SLTI", "SGTI", "SLEI", "SGEI", "SLTUI", "SGTUI", "SLEUI", "SGEUI",
       "BEZ", "BNZ", "JMP", "JL", "JR", "JLR", "ITOF", "FTOI", "FLOP" >>
AluFunct ==
    << "ADD", "SUB", "MUL", "DIV", "AND", "OR", "XOR", "SLL", "SRL", "SRA",
       "SEQ", "SNE", "SLT", "SGT", "SLE", "SGE", "SLTU", "SGTU", "SLEU",
       "SGEU" >>
FlopFunct == << "FADD", "FSUB", "FMUL", "FDIV" >>
RegisterId ==
    << "ZERO", "V0", "V1", "A0", "A1", "A2", "A3", "A4", "T0", "T1", "T2",
       "T3", "T4", "T5", "T6", "T7", "T8", "T9", "S0", "S1", "S2", "S3",
       "S4", "S5", "S6", "S7", "S8", "S9", "SP", "FP", "RM", "RA" >>

\* derive(ToPrimitive) / derive(FromPrimitive); "None" when out of the enum
enum_to_u32(enum, v) == (CHOOSE i \in 1..Len(enum) : enum[i] = v) - 1
from_u32(enum, n) == IF n >= 0 /\ n < Len(enum) THEN enum[n + 1] ELSE "None"

register_index(id) == enum_to_u32(RegisterId, id)

\* (value << offset) & mask, value a u32
Place(value, offset, mask) == And32(Shl32(value, offset), mask)
\* (word & mask) >> offset
Field(word, mask, offset) == Shr32(And32(word, mask), offset)

make_r_instruction(oc, rd, rs1, rs2, funct) ==
    Or32(Or32(Or32(Or32(Place(enum_to_u32(Opcode, oc), OPCODE_OFFSET, OPCODE_MASK),
                        Place(register_index(rd), RD_OFFSET, RD_MASK)),
                   Place(register_index(rs1), RS1_OFFSET, RS1_MASK)),
              Place(register_index(rs2), RS2_OFFSET, RS2_MASK)),
         Place(funct, FUNCT_OFFSET, FUNCT_MASK))
make_alu_instruction(funct, rd, rs1, rs2) ==
    make_r_instruction("ALU", rd, rs1, rs2, enum_to_u32(AluFunct, funct))
make_flop_instruction(funct, rd, rs1, rs2) ==
    make_r_instruction("FLOP", rd, rs1, rs2, enum_to_u32(FlopFunct, funct))
\* immediate: an i16 (-32768..32767); `immediate as u32` sign-extends
make_i_instruction(oc, rd, rs1, immediate) ==
    Or32(Or32(Or32(Place(enum_to_u32(Opcode, oc), OPCODE_OFFSET, OPCODE_MASK),
                   Place(register_index(rd), RD_OFFSET, RD_MASK)),
              Place(register_index(rs1), RS1_OFFSET, RS1_MASK)),
         Place(immediate, IMMEDIATE_OFFSET, IMMEDIATE_MASK))
\* address: an i32
make_j_instruction(oc, address) ==
    Or32(Place(enum_to_u32(Opcode, oc), OPCODE_OFFSET, OPCODE_MASK),
         Place(address, ADDRESS_OFFSET, ADDRESS_MASK))
nop == make_i_instruction("NOP", "ZERO", "ZERO", 0)

\* instructions_from_words / program_from_words: little-endian bytes
RECURSIVE instructions_from_words(_)
instructions_from_words(ws) ==
    IF ws = << >> THEN << >>
    ELSE ToBytes(Head(ws), WORD_BYTES) \o instructions_from_words(Tail(ws))

\* ------------------------------------------------------------------------
\* f32 <-> i32 conversions of the register union (f32 held as its bits)
\* ------------------------------------------------------------------------
\* `x as f32`: round to nearest, ties to even
ItoF(x) ==
    IF x = 0 THEN 0
    ELSE IF x = MinI32 THEN -822083584
    ELSE LET mag == IF x < 0 THEN -x ELSE x
             p == CHOOSE q \in 0..30 :
                      /\ Pow2(q) <= mag
                      /\ (q < 30 => mag < Pow2(q + 1))
             sh == p - 23
             q0 == IF sh <= 0 THEN mag * Pow2(-sh) ELSE mag \div Pow2(sh)
             r0 == IF sh <= 0 THEN 0 ELSE mag % Pow2(sh)
             half == IF sh <= 0 THEN 1 ELSE Pow2(sh - 1)
             up == sh > 0 /\ (r0 > half \/ (r0 = half /\ q0 % 2 = 1))
             q1 == IF up THEN q0 + 1 ELSE q0
             ex == IF q1 = Pow2(24) THEN p + 128 ELSE p + 127
             m == IF q1 = Pow2(24) THEN 0 ELSE q1 - Pow2(23)
             bits == ex * Pow2(23) + m
         IN IF x < 0 THEN bits + MinI32 ELSE bits

\* is_finite of an f32 given by its bits
IsFinite(bits) == (bits \div Pow2(23)) % 256 # 255

\* `f as i32` of a finite f32: truncation toward zero, saturating
FtoI(bits) ==
    LET e == (bits \div Pow2(23)) % 256
        M == Pow2(23) + (bits % Pow2(23))
        v == IF e < 127 THEN 0
             ELSE IF e >= 150 THEN M * Pow2(e - 150)
             ELSE M \div Pow2(150 - e)
    IN IF e >= 158 THEN (IF bits < 0 THEN MinI32 ELSE MaxI32)
       ELSE IF bits < 0 THEN -v ELSE v

\* ------------------------------------------------------------------------
\* Plain buffer (src/src/memory.rs, impl Storage for Memory); data is the
\* byte sequence, byte at address a is data[a + 1]
\* ------------------------------------------------------------------------
Memory_new(length) == [i \in 1..length |-> 0]

Memory_length(data) == Len(data)

\* address <= len && (address + length) <= len; "panic" when the sum
\* overflows in a build with overflow checks, the wrapped sum otherwise
Memory_check_range(data, address, length) ==
    LET len == Len(data)
    IN IF ~ULe(address, len) THEN "false"
       ELSE IF UAddOverflows(address, length) /\ overflow_checks THEN "panic"
       ELSE IF ULe(Add32(address, length), len) THEN "true"
       ELSE "false"

\* Ok(&data[address..address + length]) or Err(()); slicing panics when the
\* (wrapped) end lies before the start
Memory_borrow_slice(data, address, length) ==
    LET c == Memory_check_range(data, address, length)
        end == Add32(address, length)
    IN IF c = "panic" THEN [res |-> "panic", lo |-> 0, hi |-> 0]
       ELSE IF c = "false" THEN [res |-> "err", lo |-> 0, hi |-> 0]
       ELSE IF ULt(end, address) THEN [res |-> "panic", lo |-> 0, hi |-> 0]
       ELSE [res |-> "ok", lo |-> address, hi |-> end]

Memory_borrow_slice_mut(data, address, length) ==
    Memory_borrow_slice(data, address, length)

\* Storage::read: assert!(size >= 1 && size <= 4), then read_uint of the slice
Memory_read(data, address, size) ==
    IF ~(size >= 1 /\ size <= 4) THEN [res |-> "panic", value |-> 0]
    ELSE LET b == Memory_borrow_slice(data, address, size)
         IN IF b.res # "ok" THEN [res |-> b.res, value |-> 0]
            ELSE [res |-> "ok", value |-> FromBytes(SubSeq(data, b.lo + 1, b.hi))]

\* true when the u32 value is representable with size bytes
FitsBytes(value, size) == size >= 4 \/ (value >= 0 /\ value < Pow2(8 * size))

\* Storage::write: assert!(size >= 1 && size <= 4), then write_uint into the
\* mutable slice; write_uint panics when value is not representable with
\* size bytes (memory.rs:157)
Memory_write(data, address, size, value) ==
    IF ~(size >= 1 /\ size <= 4) THEN [res |-> "panic", data |-> data]
    ELSE LET b == Memory_borrow_slice_mut(data, address, size)
         IN IF b.res # "ok" THEN [res |-> b.res, data |-> data]
            ELSE IF ~FitsBytes(value, size) THEN [res |-> "panic", data |-> data]
            ELSE [res |-> "ok",
                  data |-> [i \in 1..Len(data) |->
                               IF i > b.lo /\ i <= b.hi
                               THEN ToBytes(value, size)[i - b.lo]
                               ELSE data[i]]]

\* ------------------------------------------------------------------------
\* Observed storage (src/src/memory/io.rs, IOMemory<H>); a value is
\* [memory, handler, calls]: the buffer, the handler and the handler calls
\* of the last write.  The buffer obeys the plain buffer contract.
\* ------------------------------------------------------------------------
\* the handlers of the model: one that admits every write, one that admits
\* none, one that admits the writes that start at an even address
Handlers == {"all", "none", "even"}

IOHandler_can_write(handler, memory, address, size) ==
    CASE handler = "all" -> TRUE
      [] handler = "none" -> FALSE
      [] handler = "even" -> address % 2 = 0

IOMemory_new(size, handler) ==
    [memory |-> Memory_new(size), handler |-> handler, calls |-> << >>]

IOMemory_length(io) == Memory_length(io.memory)
IOMemory_check_range(io, address, length) ==
    Memory_check_range(io.memory, address, length)
IOMemory_read(io, address, size) == Memory_read(io.memory, address, size)

\* if can_write { memory.write(..)?; on_write(..) }  Ok(())
IOMemory_write_denial_checks_range(io, address, size, value) ==
    LET asked == [call |-> "can_write", memory |-> io.memory,
                  address |-> address, size |-> size]
    IN IF IOHandler_can_write(io.handler, io.memory, address, size)
       THEN LET w == Memory_write(io.memory, address, size, value)
            IN IF w.res # "ok"
               THEN [res |-> w.res, io |-> [io EXCEPT !.calls = << asked >>]]
               ELSE [res |-> "ok",
                     io |-> [io EXCEPT
                               !.memory = w.data,
                               !.calls = << asked,
                                            [call |-> "on_write",
                                             memory |-> w.data,
                                             address |-> address,
                                             size |-> size] >>]]
       ELSE [res |-> IF Memory_check_range(io.memory, address, size) = "true"
                     THEN "ok" ELSE "err",
             io |-> [io EXCEPT !.calls = << asked >>]]
IOMemory_write_notifies_first(io, address, size, value) ==
    LET asked == [call |-> "can_write", memory |-> io.memory,
                  address |-> address, size |-> size]
    IN IF IOHandler_can_write(io.handler, io.memory, address, size)
       THEN LET w == Memory_write(io.memory, address, size, value)
            IN IF w.res # "ok"
               THEN [res |-> w.res, io |-> [io EXCEPT !.calls = << asked >>]]
               ELSE [res |-> "ok",
                     io |-> [io EXCEPT
                               !.memory = w.data,
                               !.calls = << asked,
                                            [call |-> "on_write",
                                             memory |-> io.memory,
                                             address |-> address,
                                             size |-> size] >>]]
       ELSE [res |-> "ok", io |-> [io EXCEPT !.calls = << asked >>]]
IOMemory_write(io, address, size, value) ==
    LET asked == [call |-> "can_write", memory |-> io.memory,
                  address |-> address, size |-> size]
    IN IF IOHandler_can_write(io.handler, io.memory, address, size)
       THEN LET w == Memory_write(io.memory, address, size, value)
            IN IF w.res # "ok"
               THEN [res |-> w.res, io |-> [io EXCEPT !.calls = << asked >>]]
               ELSE [res |-> "ok",
                     io |-> [io EXCEPT
                               !.memory = w.data,
                               !.calls = << asked,
                                            [call |-> "on_write",
                                             memory |-> w.data,
                                             address |-> address,
                                             size |-> size] >>]]
       ELSE [res |-> "ok", io |-> [io EXCEPT !.calls = << asked >>]]

\* ------------------------------------------------------------------------
\* Composite storage (src/src/memory/composite.rs).  fragments is the Vec of
\* (address, child) pairs, held as records [addr, frag]; the children of the
\* model are plain buffers [id, data], id being the name the host gave the
\* buffer.  registry is the HashMap key -> index, a function on the bound
\* keys.  Indices are 0-based as in the source: fragment i is fragments[i+1].
\* ------------------------------------------------------------------------
Fragment_length(frag) == Memory_length(frag.data)

\* Vec::insert(index, e) and the list left by Vec::remove(index), index < len
VecInsert(v, index, e) == SubSeq(v, 1, index) \o << e >> \o SubSeq(v, index + 1, Len(v))
VecRemove(v, index) == SubSeq(v, 1, index) \o SubSeq(v, index + 2, Len(v))

\* HashMap::insert and HashMap::remove
MapInsert(m, k, x) == [j \in DOMAIN m \cup {k} |-> IF j = k THEN x ELSE m[j]]
MapRemove(m, k) == [j \in DOMAIN m \ {k} |-> m[j]]

\* find_mount_index without the test of the fragments below the address
RECURSIVE find_mount_index_above_only_from(_, _, _, _)
find_mount_index_above_only_from(frags, address, upper_bound, i) ==
    IF i >= Len(frags) THEN [res |-> "ok", index |-> Len(frags)]
    ELSE LET frag_addr == frags[i + 1].addr
         IN IF ULe(address, frag_addr)
            THEN (IF ULt(frag_addr, upper_bound)
                  THEN [res |-> "FragmentIntersection", index |-> 0]
                  ELSE [res |-> "ok", index |-> i])
            ELSE find_mount_index_above_only_from(frags, address, upper_bound,
                                                  i + 1)
\* Ok(index) as [res |-> "ok", index] or Err(FragmentIntersection)
RECURSIVE find_mount_index_from(_, _, _, _)
find_mount_index_from(frags, address, upper_bound, i) ==
    IF i >= Len(frags) THEN [res |-> "ok", index |-> Len(frags)]
    ELSE LET frag_addr == frags[i + 1].addr
             frag_upper == Add32(frag_addr, Fragment_length(frags[i + 1].frag))
         IN IF ULe(address, frag_addr)
            THEN (IF ULt(frag_addr, upper_bound)
                  THEN [res |-> "FragmentIntersection", index |-> 0]
                  ELSE [res |-> "ok", index |-> i])
            ELSE IF ULt(address, frag_upper)
            THEN [res |-> "FragmentIntersection", index |-> 0]
            ELSE find_mount_index_from(frags, address, upper_bound, i + 1)
find_mount_index_above_only(frags, address, upper_bound) ==
    find_mount_index_above_only_from(frags, address, upper_bound, 0)
find_mount_index(frags, address, upper_bound) ==
    find_mount_index_from(frags, address, upper_bound, 0)

\* CompositeMemory::mount; the result carries the composite it leaves
mount_registers_end(frags, reg, address, key, fragment) ==
    IF key \in DOMAIN reg
    THEN [res |-> "KeyAlreadyExists", fragments |-> frags, registry |-> reg]
    ELSE IF UAddOverflows(address, Fragment_length(fragment))
    THEN [res |-> "panic", fragments |-> frags, registry |-> reg]
    ELSE LET upper_bound == Add32(address, Fragment_length(fragment))
             found == find_mount_index(frags, address, upper_bound)
         IN IF found.res # "ok"
            THEN [res |-> found.res, fragments |-> frags, registry |-> reg]
            ELSE [res |-> "ok",
                  fragments |-> VecInsert(frags, found.index,
                                          [addr |-> address, frag |-> fragment]),
                  registry |-> MapInsert(reg, key, Len(frags))]
mount(frags, reg, address, key, fragment) ==
    IF key \in DOMAIN reg
    THEN [res |-> "KeyAlreadyExists", fragments |-> frags, registry |-> reg]
    ELSE IF UAddOverflows(address, Fragment_length(fragment))
    THEN [res |-> "panic", fragments |-> frags, registry |-> reg]
    ELSE LET upper_bound == Add32(address, Fragment_length(fragment))
             found == find_mount_index(frags, address, upper_bound)
         IN IF found.res # "ok"
            THEN [res |-> found.res, fragments |-> frags, registry |-> reg]
            ELSE [res |-> "ok",
                  fragments |-> VecInsert(frags, found.index,
                                          [addr |-> address, frag |-> fragment]),
                  registry |-> MapInsert(reg, key, found.index)]

\* CompositeMemory::unmount: registry.remove(key).map(|i| fragments.remove(i).1);
\* Vec::remove panics when i >= len, after the key has left the registry
NoFragment == [id |-> "none", data |-> << >>]
unmount_keeps_binding(frags, reg, key) ==
    IF key \notin DOMAIN reg
    THEN [res |-> "none", child |-> NoFragment, fragments |-> frags, registry |-> reg]
    ELSE LET i == reg[key]
         IN IF i >= Len(frags)
            THEN [res |-> "panic", child |-> NoFragment, fragments |-> frags,
                  registry |-> reg]
            ELSE [res |-> "some", child |-> frags[i + 1].frag,
                  fragments |-> VecRemove(frags, i),
                  registry |-> reg]
unmount(frags, reg, key) ==
    IF key \notin DOMAIN reg
    THEN [res |-> "none", child |-> NoFragment, fragments |-> frags, registry |-> reg]
    ELSE LET i == reg[key]
         IN IF i >= Len(frags)
            THEN [res |-> "panic", child |-> NoFragment, fragments |-> frags,
                  registry |-> MapRemove(reg, key)]
            ELSE [res |-> "some", child |-> frags[i + 1].frag,
                  fragments |-> VecRemove(frags, i),
                  registry |-> MapRemove(reg, key)]

\* slice::binary_search_by_key on the bases, as [found, index] for Ok(index)
\* and Err(index).  The standard library only promises that any one of
\* several matches may be returned; its two implementations are the
\* halving search that ends on the last match (binary_search_last) and the
\* search that returns the first probe that matches (binary_search_from)
binary_search_last(frags, address) ==
    LET le == {i \in 0..(Len(frags) - 1) : ULe(frags[i + 1].addr, address)}
        n == Cardinality(le)
    IN IF n > 0 /\ frags[n].addr = address
       THEN [found |-> TRUE, index |-> n - 1]
       ELSE [found |-> FALSE, index |-> n]
RECURSIVE binary_search_from(_, _, _, _)
binary_search_from(frags, address, left, right) ==
    IF left >= right THEN [found |-> FALSE, index |-> left]
    ELSE LET mid == left + ((right - left) \div 2)
         IN IF frags[mid + 1].addr = address
            THEN [found |-> TRUE, index |-> mid]
            ELSE IF ULt(frags[mid + 1].addr, address)
            THEN binary_search_from(frags, address, mid + 1, right)
            ELSE binary_search_from(frags, address, left, mid)

\* CompositeMemory::get_index: Ok(i) => Some(i), Err(i) => Some(i - 1) when
\* i > 0, else None.  The operator gives the set of the indices get_index
\* can return, one for each implementation of the search; -1 stands for
\* None.
get_index(frags, address) ==
    LET Index(r) == IF r.found THEN r.index
                    ELSE IF r.index > 0 THEN r.index - 1 ELSE -1
    IN {Index(binary_search_last(frags, address)),
        Index(binary_search_from(frags, address, 0, Len(frags)))}

\* get_fragment / get_fragment_mut for the index the search returned:
\* Some((fragment, address - frag_addr)) or None
get_fragment(frags, address, index) ==
    IF index < 0 \/ index >= Len(frags)
    THEN [some |-> FALSE, index |-> 0, local_address |-> 0]
    ELSE [some |-> TRUE, index |-> index,
          local_address |-> Sub32(address, frags[index + 1].addr)]

CompositeMemory_length(frags) ==
    IF Len(frags) # 0
    THEN Add32(frags[Len(frags)].addr, Fragment_length(frags[Len(frags)].frag))
    ELSE 0

CompositeMemory_check_range(frags, address, length, index) ==
    LET f == get_fragment(frags, address, index)
    IN IF f.some
       THEN Memory_check_range(frags[f.index + 1].frag.data, f.local_address, length)
       ELSE "false"

CompositeMemory_read(frags, address, size, index) ==
    LET f == get_fragment(frags, address, index)
    IN IF f.some
       THEN Memory_read(frags[f.index + 1].frag.data, f.local_address, size)
       ELSE [res |-> "err", value |-> 0]

CompositeMemory_write(frags, address, size, value, index) ==
    LET f == get_fragment(frags, address, index)
    IN IF f.some
       THEN LET w == Memory_write(frags[f.index + 1].frag.data,
                                  f.local_address, size, value)
            IN [res |-> w.res,
                fragments |-> [frags EXCEPT ![f.index + 1].frag.data = w.data]]
       ELSE [res |-> "err", fragments |-> frags]

\* ------------------------------------------------------------------------
\* A plain buffer too long to hold as a sequence (Memory::new(length) with
\* length up to 0xFFFF_FFFF): [kind |-> "vast", length, bytes], bytes being
\* the bytes written so far, a function on their (u32) addresses; every
\* other byte is the 0 of Memory::new
\* ------------------------------------------------------------------------
\* Memory::check_range, then the slice data[address..address + length]
VastMemory_borrow_slice(len, address, length) ==
    IF ~ULe(address, len) THEN "err"
    ELSE IF UAddOverflows(address, length) /\ overflow_checks THEN "panic"
    ELSE IF ~ULe(Add32(address, length), len) THEN "err"
    ELSE IF ULt(Add32(address, length), address) THEN "panic"
    ELSE "ok"

\* Storage::read
VastMemory_read(s, address, size) ==
    LET b == VastMemory_borrow_slice(s.length, address, size)
        byte(i) == IF Add32(address, i - 1) \in DOMAIN s.bytes
                   THEN s.bytes[Add32(address, i - 1)] ELSE 0
    IN IF ~(size >= 1 /\ size <= 4) THEN [res |-> "panic", value |-> 0]
       ELSE IF b # "ok" THEN [res |-> b, value |-> 0]
       ELSE [res |-> "ok", value |-> FromBytes([i \in 1..size |-> byte(i)])]

\* Storage::write
VastMemory_write(s, address, size, value) ==
    LET b == VastMemory_borrow_slice(s.length, address, size)
        slice == {Add32(address, i - 1) : i \in 1..size}
    IN IF ~(size >= 1 /\ size <= 4) THEN [res |-> "panic", storage |-> s]
       ELSE IF b # "ok" THEN [res |-> b, storage |-> s]
       ELSE IF ~FitsBytes(value, size) THEN [res |-> "panic", storage |-> s]
       ELSE [res |-> "ok",
             storage |->
               [s EXCEPT !.bytes =
                  [a \in DOMAIN s.bytes \cup slice |->
                     IF a \in slice
                     THEN ToBytes(value, size)[Sub32(a, address) + 1]
                     ELSE s.bytes[a]]]]

\* ------------------------------------------------------------------------
\* The storage the processor is given (&mut dyn StorageMut): a plain buffer
\* [kind |-> "plain", data], a vast plain buffer or an observed storage
\* [kind |-> "io", io]
\* ------------------------------------------------------------------------
Plain(data) == [kind |-> "plain", data |-> data]
Observed(io) == [kind |-> "io", io |-> io]

StorageBytes(s) ==
    IF s.kind = "plain" THEN s.data
    ELSE IF s.kind = "vast" THEN s.bytes
    ELSE s.io.memory

Storage_length(s) ==
    IF s.kind = "vast" THEN s.length ELSE Memory_length(StorageBytes(s))
Storage_check_range(s, address, length) ==
    IF s.kind = "vast"
    THEN (IF ~ULe(address, s.length) THEN "false"
          ELSE IF UAddOverflows(address, length) /\ overflow_checks THEN "panic"
          ELSE IF ULe(Add32(address, length), s.length) THEN "true"
          ELSE "false")
    ELSE Memory_check_range(StorageBytes(s), address, length)
Storage_read(s, address, size) ==
    IF s.kind = "plain" THEN Memory_read(s.data, address, size)
    ELSE IF s.kind = "vast" THEN VastMemory_read(s, address, size)
    ELSE IOMemory_read(s.io, address, size)
Storage_write(s, address, size, value) ==
    IF s.kind = "plain"
    THEN LET w == Memory_write(s.data, address, size, value)
         IN [res |-> w.res, storage |-> Plain(w.data)]
    ELSE IF s.kind = "vast" THEN VastMemory_write(s, address, size, value)
    ELSE LET w == IOMemory_write(s.io, address, size, value)
         IN [res |-> w.res, storage |-> Observed(w.io)]

\* ------------------------------------------------------------------------
\* Decode and dispatch (src/src/processor/logic.rs)
\* ------------------------------------------------------------------------
\* enum TickResult { Next, Jump(u32, bool), Stop(ExitCode) }; Panic is the
\* unwinding of a panic raised by the storage
TickNext == [kind |-> "Next", target |-> 0, link |-> FALSE, code |-> "None"]
TickJump(t, l) == [kind |-> "Jump", target |-> t, link |-> l, code |-> "None"]
TickStop(c) == [kind |-> "Stop", target |-> 0, link |-> FALSE, code |-> c]
TickPanic == [kind |-> "Panic", target |-> 0, link |-> FALSE, code |-> "None"]

write_i(regs, id, value) == IF id # 0 THEN [regs EXCEPT ![id] = value] ELSE regs
write_u(regs, id, value) == IF id # 0 THEN [regs EXCEPT ![id] = value] ELSE regs
write_f(regs, id, value) == IF id # 0 THEN [regs EXCEPT ![id] = value] ELSE regs

\* registers[id].set_i(product as i32); registers[RM].set_i((product >> 32) as i32)
mul(regs, id, factor1, factor2) ==
    [[regs EXCEPT ![id] = MulLo(factor1, factor2)]
        EXCEPT ![register_index("RM")] = MulHi(factor1, factor2)]

\* returns false, writing nothing, when the divisor is 0
div_clears_first(regs, id, dividend, divisor) ==
    IF divisor = 0
    THEN [ok |-> FALSE,
          registers |-> write_i(write_i(regs, id, 0), register_index("RM"), 0)]
    ELSE [ok |-> TRUE,
          registers |-> write_i(write_i(regs, id, Div32(dividend, divisor)),
                                register_index("RM"), Rem32(dividend, divisor))]
div(regs, id, dividend, divisor) ==
    IF divisor = 0 THEN [ok |-> FALSE, registers |-> regs]
    ELSE [ok |-> TRUE,
          registers |-> write_i(write_i(regs, id, Div32(dividend, divisor)),
                                register_index("RM"), Rem32(dividend, divisor))]

set_if(regs, id, condition) == write_u(regs, id, IF condition THEN 1 ELSE 0)

\* storage.read(address, size).map(|v| write_u(registers, id, v)).is_ok()
load(regs, stor, id, address, size) ==
    LET r == Storage_read(stor, address, size)
    IN [res |-> r.res,
        registers |-> IF r.res = "ok" THEN write_u(regs, id, r.value) ELSE regs]

jump(new_addr, link) == TickJump(new_addr, link)

\* the f32 operations of FLOP are not computed: fval stands for the bits of
\* the IEEE-754 result, which the caller draws from F32Results
F32Results == {0, ItoF(1), ItoF(-3), 2143289344, 2139095040}

\* the 26-bit address field taken as it is, without its sign
extend_address_unsigned(address) == address

\* the sign extension of the 26-bit address field
extend_address(address) ==
    IF And32(address, ADDRESS_SIGN_MASK) # 0
    THEN Or32(address, ADDRESS_EXTENSION)
    ELSE address

\* the match on the opcode in logic::tick, given the decoded fields: the
\* opcode, the register indices, the immediate as a u16, the sign-extended
\* address and the funct value
execute(regs, stor, pc, fval, op_code, rdid, rs1id, rs2id, imm_u16, address, funct_value) ==
    LET rd == regs[rdid]
        rs1 == regs[rs1id]
        rs2 == regs[rs2id]
        imm_i == IF imm_u16 >= 32768 THEN imm_u16 - 65536 ELSE imm_u16
        imm_u == imm_u16
        imm_u_ex == imm_i
        Out(r, st, res) == [registers |-> r, storage |-> st, result |-> res]
        Done(r) == Out(r, stor, TickNext)
        Stop(c) == Out(regs, stor, TickStop(c))
        Load(size) ==
            LET l == load(regs, stor, rdid, Add32(rs1, imm_u_ex), size)
            IN IF l.res = "ok" THEN Done(l.registers)
               ELSE IF l.res = "panic" THEN Out(l.registers, stor, TickPanic)
               ELSE Out(l.registers, stor, TickStop("BadMemoryAccess"))
        Store(size, value) ==
            LET w == Storage_write(stor, Add32(rs1, imm_u_ex), size, value)
            IN IF w.res = "ok" THEN Out(regs, w.storage, TickNext)
               ELSE IF w.res = "panic" THEN Out(regs, w.storage, TickPanic)
               ELSE Out(regs, w.storage, TickStop("BadMemoryAccess"))
        Div(divisor) ==
            LET d == div(regs, rdid, rs1, divisor)
            IN IF d.ok THEN Done(d.registers)
               ELSE Out(d.registers, stor, TickStop("DivisionByZero"))
        Alu ==
            LET funct == from_u32(AluFunct, funct_value)
            IN CASE funct = "ADD" -> Done(write_i(regs, rdid, Add32(rs1, rs2)))
                 [] funct = "SUB" -> Done(write_i(regs, rdid, Sub32(rs1, rs2)))
                 [] funct = "MUL" -> Done(mul(regs, rdid, rs1, rs2))
                 [] funct = "DIV" -> Div(rs2)
                 [] funct = "AND" -> Done(write_i(regs, rdid, And32(rs1, rs2)))
                 [] funct = "OR" -> Done(write_i(regs, rdid, Or32(rs1, rs2)))
                 [] funct = "XOR" -> Done(write_i(regs, rdid, Xor32(rs1, rs2)))
                 [] funct = "SLL" -> Done(write_i(regs, rdid, Shl32(rs1, rs2 % 32)))
                 [] funct = "SRL" -> Done(write_u(regs, rdid, Shr32(rs1, rs2 % 32)))
                 [] funct = "SRA" -> Done(write_i(regs, rdid, Sar32(rs1, rs2 % 32)))
                 [] funct = "SEQ" -> Done(set_if(regs, rdid, rs1 = rs2))
                 [] funct = "SNE" -> Done(set_if(regs, rdid, rs1 # rs2))
                 [] funct = "SLT" -> Done(set_if(regs, rdid, rs1 < rs2))
                 [] funct = "SGT" -> Done(set_if(regs, rdid, rs1 > rs2))
                 [] funct = "SLE" -> Done(set_if(regs, rdid, rs1 <= rs2))
                 [] funct = "SGE" -> Done(set_if(regs, rdid, rs1 >= rs2))
                 [] funct = "SLTU" -> Done(set_if(regs, rdid, ULt(rs1, rs2)))
                 [] funct = "SGTU" -> Done(set_if(regs, rdid, ULt(rs2, rs1)))
                 [] funct = "SLEU" -> Done(set_if(regs, rdid, ULe(rs1, rs2)))
                 [] funct = "SGEU" -> Done(set_if(regs, rdid, ULe(rs2, rs1)))
                 [] OTHER -> Stop("InvalidOpcode")
        Flop ==
            LET funct == from_u32(FlopFunct, funct_value)
            IN IF funct \in {"FADD", "FSUB", "FMUL", "FDIV"}
               THEN Done(write_f(regs, rdid, fval))
               ELSE Stop("InvalidOpcode")
    IN CASE op_code = "NOP" -> Done(regs)
         [] op_code = "ALU" -> Alu
         [] op_code = "HALT" -> Stop("Halted")
         [] op_code = "CALL" -> Done(regs)
         [] op_code = "COPY" -> Done(write_i(regs, rdid, rs1))
         [] op_code = "LI" -> Done(write_i(regs, rdid, imm_i))
         [] op_code = "LHI" -> Done(write_i(regs, rdid, Shl32(imm_i, 16)))
         [] op_code = "SLO" ->
                Done(write_u(regs, rdid, Or32(imm_u, And32(rd, Not32(LOW_BITS_MASK)))))
         [] op_code = "SHI" ->
                Done(write_u(regs, rdid,
                             Or32(Shl32(imm_u, 16), And32(rd, Not32(HIGH_BITS_MASK)))))
         [] op_code = "LB" -> Load(BYTE_BYTES)
         [] op_code = "LH" -> Load(HALF_BYTES)
         [] op_code = "LW" -> Load(WORD_BYTES)
         [] op_code = "SB" -> Store(BYTE_BYTES, rd % 256)
         [] op_code = "SH" -> Store(HALF_BYTES, rd % 65536)
         [] op_code = "SW" -> Store(WORD_BYTES, rd)
         [] op_code = "ADDI" -> Done(write_i(regs, rdid, Add32(rs1, imm_i)))
         [] op_code = "SUBI" -> Done(write_i(regs, rdid, Sub32(rs1, imm_i)))
         [] op_code = "MULI" -> Done(mul(regs, rdid, rs1, imm_i))
         [] op_code = "DIVI" -> Div(imm_i)
         [] op_code = "ANDI" -> Done(write_i(regs, rdid, And32(rs1, imm_i)))
         [] op_code = "ORI" -> Done(write_i(regs, rdid, Or32(rs1, imm_i)))
         [] op_code = "XORI" -> Done(write_i(regs, rdid, Xor32(rs1, imm_i)))
         [] op_code = "FLIP" -> Done(write_i(regs, rdid, Not32(rs1)))
         [] op_code = "SLLI" -> Done(write_i(regs, rdid, Shl32(rs1, imm_u_ex % 32)))
         [] op_code = "SRLI" -> Done(write_u(regs, rdid, Shr32(rs1, imm_u_ex % 32)))
         [] op_code = "SRAI" -> Done(write_i(regs, rdid, Sar32(rs1, imm_u_ex % 32)))
         [] op_code = "SEQI" -> Done(set_if(regs, rdid, rs1 = imm_i))
         [] op_code = "SNEI" -> Done(set_if(regs, rdid, rs1 # imm_i))
         [] op_code = "SLTI" -> Done(set_if(regs, rdid, rs1 < imm_i))
         [] op_code = "SGTI" -> Done(set_if(regs, rdid, rs1 > imm_i))
         [] op_code = "SLEI" -> Done(set_if(regs, rdid, rs1 <= imm_i))
         [] op_code = "SGEI" -> Done(set_if(regs, rdid, rs1 >= imm_i))
         [] op_code = "SLTUI" -> Done(set_if(regs, rdid, ULt(rs1, imm_u)))
         [] op_code = "SGTUI" -> Done(set_if(regs, rdid, ULt(imm_u, rs1)))
         [] op_code = "SLEUI" -> Done(set_if(regs, rdid, ULe(rs1, imm_u)))
         [] op_code = "SGEUI" -> Done(set_if(regs, rdid, ULe(imm_u, rs1)))
         [] op_code = "BEZ" ->
                IF rs1 = 0 THEN Out(regs, stor, jump(Add32(pc, imm_u_ex), FALSE))
                ELSE Done(regs)
         [] op_code = "BNZ" ->
                IF rs1 # 0 THEN Out(regs, stor, jump(Add32(pc, imm_u_ex), FALSE))
                ELSE Done(regs)
         [] op_code = "JMP" -> Out(regs, stor, jump(Add32(pc, address), FALSE))
         [] op_code = "JL" -> Out(regs, stor, jump(Add32(pc, address), TRUE))
         [] op_code = "JR" -> Out(regs, stor, jump(rs1, FALSE))
         [] op_code = "JLR" -> Out(regs, stor, jump(rs1, TRUE))
         [] op_code = "ITOF" -> Done(write_f(regs, rdid, ItoF(rs1)))
         [] op_code = "FTOI" ->
                Done(write_i(regs, rdid, IF IsFinite(rs1) THEN FtoI(rs1) ELSE MinI32))
         [] op_code = "FLOP" -> Flop
         [] OTHER -> Stop("InvalidOpcode")

\* logic::tick: the registers and the storage it leaves, and its TickResult
logic_tick(regs, stor, instruction, pc, fval) ==
    execute(regs, stor, pc, fval,
            from_u32(Opcode, Field(instruction, OPCODE_MASK, OPCODE_OFFSET)),
            Field(instruction, RD_MASK, RD_OFFSET),
            Field(instruction, RS1_MASK, RS1_OFFSET),
            Field(instruction, RS2_MASK, RS2_OFFSET),
            Field(instruction, IMMEDIATE_MASK, IMMEDIATE_OFFSET),
            extend_address(Field(instruction, ADDRESS_MASK, ADDRESS_OFFSET)),
            Field(instruction, FUNCT_MASK, FUNCT_OFFSET))

\* ------------------------------------------------------------------------
\* Processor shell (src/src/processor.rs)
\* ------------------------------------------------------------------------
get_next_pc_no_wrap(pc, instr_len) == Add32(pc, WORD_BYTES)
get_next_pc(pc, instr_len) ==
    LET result == Add32(pc, WORD_BYTES)
    IN IF ULt(result, instr_len) THEN result ELSE 0

\* the processor fields, the storage, the decode outcome and whether the
\* call panicked
Shell(regs, pc, st, stor, result, pan) ==
    [registers |-> regs, program_counter |-> pc, state |-> st, storage |-> stor,
     result |-> result, panicked |-> pan]
NotDecoded == [kind |-> "None", target |-> 0, link |-> FALSE, code |-> "None"]

\* the guard of get_new_state: program_counter + WORD_BYTES > instr_len
bad_program_counter_ge(pc, instr_len) == ULe(instr_len, Add32(pc, WORD_BYTES))
bad_program_counter(pc, instr_len) == ULt(instr_len, Add32(pc, WORD_BYTES))

\* the checks of the Jump arm, in the order the code makes them
check_jump_range_first(new_pc, instr_len) ==
    IF ~ULt(new_pc, instr_len) THEN "BadJump"
    ELSE IF new_pc % WORD_BYTES # 0 THEN "BadAlignment"
    ELSE "None"
check_jump(new_pc, instr_len) ==
    IF new_pc % WORD_BYTES # 0 THEN "BadAlignment"
    ELSE IF ~ULt(new_pc, instr_len) THEN "BadJump"
    ELSE "None"

\* the else branch of the Jump arm: the link, then the new program counter
take_jump_unwrapped_link(regs, old_pc, instr_len, new_pc, link) ==
    [registers |-> IF link
                   THEN [regs EXCEPT ![register_index("RA")] = Add32(old_pc, WORD_BYTES)]
                   ELSE regs,
     program_counter |-> new_pc]
take_jump(regs, old_pc, instr_len, new_pc, link) ==
    [registers |-> IF link
                   THEN [regs EXCEPT ![register_index("RA")] =
                            get_next_pc(old_pc, instr_len)]
                   ELSE regs,
     program_counter |-> new_pc]

\* the match on the TickResult in get_new_state; t is what logic::tick left
match_tick_result(pc, instr_len, t) ==
    CASE t.result.kind = "Next" ->
            Shell(t.registers, get_next_pc(pc, instr_len), "None",
                  t.storage, t.result, FALSE)
      [] t.result.kind = "Jump" ->
            IF check_jump(t.result.target, instr_len) # "None"
            THEN Shell(t.registers, pc, check_jump(t.result.target, instr_len),
                       t.storage, t.result, FALSE)
            ELSE Shell(take_jump(t.registers, pc, instr_len,
                                 t.result.target, t.result.link).registers,
                       take_jump(t.registers, pc, instr_len,
                                 t.result.target, t.result.link).program_counter,
                       "None", t.storage, t.result, FALSE)
      [] t.result.kind = "Stop" ->
            Shell(t.registers, pc, t.result.code, t.storage, t.result, FALSE)
      [] t.result.kind = "Panic" ->
            Shell(t.registers, pc, "None", t.storage, t.result, TRUE)

\* a slice of 2^32 zero bytes, which no sequence of this model can hold, is
\* written as the one-element sequence << -1 >>
VastInstructions == << -1 >>
\* instructions.len() as u32: the length modulo 2^32
len_as_u32(instrs) == IF instrs = VastInstructions THEN 0 ELSE Len(instrs)

\* Processor::get_new_state; state is the Option<ExitCode> it returns.  The
\* unchecked pc + WORD_BYTES panics on overflow in a build with overflow
\* checks; in a build without them the slice pc..pc+4 panics
get_new_state(regs, pc, instrs, stor, fval) ==
    IF UAddOverflows(pc, WORD_BYTES) /\ overflow_checks
    THEN Shell(regs, pc, "None", stor, NotDecoded, TRUE)
    ELSE IF bad_program_counter(pc, len_as_u32(instrs))
    THEN Shell(regs, pc, "BadProgramCounter", stor, NotDecoded, FALSE)
    ELSE IF UAddOverflows(pc, WORD_BYTES)
    THEN Shell(regs, pc, "None", stor, NotDecoded, TRUE)
    ELSE match_tick_result(
             pc, len_as_u32(instrs),
             logic_tick(regs, stor,
                        FromBytes(SubSeq(instrs, pc + 1, pc + WORD_BYTES)),
                        pc, fval))

\* Processor::tick: if !is_stopped() { state = get_new_state(..) }  state
tick_unguarded(regs, pc, st, instrs, stor, fval) ==
    get_new_state(regs, pc, instrs, stor, fval)
tick(regs, pc, st, instrs, stor, fval) ==
    IF st = "None" THEN get_new_state(regs, pc, instrs, stor, fval)
    ELSE Shell(regs, pc, st, stor, NotDecoded, FALSE)

\* Processor::register_mut(id).set_i(value): no register is write-suppressed
register_mut_set(regs, id, value) ==
    [regs EXCEPT ![register_index(id)] = value]

\* Processor::default / Processor::reset
ZeroRegisters == [i \in 0..(REGISTER_COUNT - 1) |-> 0]
reset_keeps_state(regs, pc, st) ==
    [registers |-> ZeroRegisters, program_counter |-> 0, state |-> st]
reset(regs, pc, st) ==
    [registers |-> ZeroRegisters, program_counter |-> 0, state |-> "None"]

\* ------------------------------------------------------------------------
\* The processor driven by a host: bounds and inputs
\* ------------------------------------------------------------------------
MaxSteps == 3      \* the host makes at most MaxSteps calls
StorageLen == 8    \* length of the storage given to the processor

\* bytes that follow the last whole word of an instruction buffer
RaggedTails == {0, 2}

\* the registers the host writes between ticks, and the values it writes
HostRegisters == {"ZERO", "T0"}
HostValues == {4}

InvalidWord == Place(63, OPCODE_OFFSET, OPCODE_MASK)

InstrMenu ==
    { nop, InvalidWord,
      make_i_instruction("HALT", "ZERO", "ZERO", 0),
      make_r_instruction("ALU", "T0", "T0", "T0", 63),
      make_i_instruction("COPY", "ZERO", "T0", 0),
      make_i_instruction("SLO", "ZERO", "ZERO", 5),
      make_i_instruction("ITOF", "ZERO", "T0", 0),
      make_flop_instruction("FADD", "ZERO", "T0", "T0"),
      make_alu_instruction("MUL", "ZERO", "T0", "T0"),
      make_alu_instruction("MUL", "T1", "T0", "T0"),
      make_i_instruction("MULI", "ZERO", "T0", 2),
      make_alu_instruction("DIV", "T1", "T0", "ZERO"),
      make_alu_instruction("DIV", "ZERO", "RM", "T0"),
      make_i_instruction("DIVI", "T0", "RM", 0),
      make_i_instruction("SW", "T0", "ZERO", 0),
      make_i_instruction("SW", "T0", "ZERO", 6),
      make_i_instruction("SB", "T0", "ZERO", 7),
      make_i_instruction("LW", "T1", "ZERO", 0),
      make_i_instruction("LH", "T1", "ZERO", 7),
      make_i_instruction("BEZ", "ZERO", "ZERO", 4),
      make_i_instruction("JR", "ZERO", "T0", 0),
      make_i_instruction("JLR", "ZERO", "T0", 0),
      make_i_instruction("JLR", "ZERO", "ZERO", 0),
      make_i_instruction("LI", "ZERO", "ZERO", 3),
      make_i_instruction("LI", "T0", "ZERO", 3),
      make_i_instruction("LI", "T0", "ZERO", 4),
      make_i_instruction("LI", "RM", "ZERO", 3),
      make_j_instruction("JMP", 4),
      make_j_instruction("JMP", 14) }
    \cup { make_j_instruction("JL", a) : a \in {-4, 0, 4, 14, 16} }

\* the words a two-word program starts with
FirstWords ==
    { nop,
      make_i_instruction("LI", "T0", "ZERO", 3),
      make_i_instruction("LI", "T0", "ZERO", 4),
      make_i_instruction("LI", "RM", "ZERO", 3),
      make_i_instruction("SW", "T0", "ZERO", 0),
      make_j_instruction("JL", 4) }

\* the instruction buffers the host passes: no word, one word of the menu,
\* or a first word and a word of the menu; then a ragged tail
WordSeqs ==
    {<< >>} \cup {<<w>> : w \in InstrMenu}
            \cup {<<w1, w2>> : w1 \in FirstWords, w2 \in InstrMenu}

Programs ==
    { instructions_from_words(ws) \o [i \in 1..t |-> 0] :
        ws \in WordSeqs, t \in RaggedTails }

InitStorages ==
    { Plain(Memory_new(StorageLen)), Observed(IOMemory_new(StorageLen, "even")) }

EmptyMap == [k \in {} |-> 0]

\* no assembler runs in this specification
NoAssembler == [phase |-> "none"]

Init ==
    /\ registers = ZeroRegisters
    /\ program_counter = 0
    /\ state = "None"
    /\ instructions \in Programs
    /\ storage \in InitStorages
    /\ fragments = << >>
    /\ registry = EmptyMap
    /\ overflow_checks \in BOOLEAN
    /\ panicked = FALSE
    /\ steps = 0
    /\ last = [op |-> "init"]
    /\ assembler = NoAssembler

\* what a claim compares across a call: the processor fields and the bytes
\* of the storage
Snapshot ==
    [registers |-> registers, program_counter |-> program_counter,
     state |-> state, bytes |-> StorageBytes(storage)]

\* the values the f32 result of the instruction at pc may take
FloatChoices ==
    IF /\ state = "None"
       /\ program_counter >= 0
       /\ program_counter + WORD_BYTES <= Len(instructions)
       /\ from_u32(Opcode,
                   Field(FromBytes(SubSeq(instructions, program_counter + 1,
                                          program_counter + WORD_BYTES)),
                         OPCODE_MASK, OPCODE_OFFSET)) = "FLOP"
    THEN F32Results
    ELSE {0}

\* the host calls processor.tick(&instructions, &mut storage)
Tick ==
    /\ ~panicked
    /\ steps < MaxSteps
    /\ \E fval \in FloatChoices :
       \E r \in {tick(registers, program_counter, state, instructions, storage, fval)} :
            /\ registers' = r.registers
            /\ program_counter' = r.program_counter
            /\ state' = IF r.panicked THEN state ELSE r.state
            /\ storage' = r.storage
            /\ panicked' = r.panicked
            /\ last' = [op |-> "tick", pre |-> Snapshot, result |-> r.result,
                        ret |-> r.state, ran |-> state = "None"]
    /\ steps' = steps + 1
    /\ UNCHANGED << instructions, fragments, registry, overflow_checks,
                 assembler >>

\* the host calls processor.reset()
Reset ==
    /\ ~panicked
    /\ steps < MaxSteps
    /\ LET r == reset(registers, program_counter, state)
       IN /\ registers' = r.registers
          /\ program_counter' = r.program_counter
          /\ state' = r.state
    /\ last' = [op |-> "reset", pre |-> Snapshot]
    /\ steps' = steps + 1
    /\ UNCHANGED << instructions, storage, fragments, registry, overflow_checks,
                    assembler,
                    panicked >>

\* the host calls processor.register_mut(id).set_i(value)
SetRegister ==
    /\ ~panicked
    /\ steps < MaxSteps
    /\ \E id \in HostRegisters, value \in HostValues :
         /\ registers' = register_mut_set(registers, id, value)
         /\ last' = [op |-> "set", pre |-> Snapshot, id |-> id, value |-> value]
    /\ steps' = steps + 1
    /\ UNCHANGED << program_counter, state, instructions, storage, fragments,
                    registry, overflow_checks, panicked, assembler >>

Next == Tick \/ Reset \/ SetRegister

Spec == Init /\ [][Next]_vars

\* ------------------------------------------------------------------------
\* Claims about the processor (specification Spec)
\* ------------------------------------------------------------------------
InstrLen == Len(instructions)
RA == register_index("RA")
RM == register_index("RM")
T0 == register_index("T0")

\* a tick that found the processor running, and did not panic
RanTick == last.op = "tick" /\ last.ran /\ ~panicked

\* C1: a tick that starts with ZERO holding 0 ends with ZERO holding 0,
\* whatever instruction names ZERO as its destination; so ZERO holds 0 after
\* any number of ticks from a fresh or reset processor
C1_ZeroStaysZero ==
    (last.op = "tick" /\ last.pre.registers[0] = 0) => registers[0] = 0

\* C4: a tick on a processor that already holds an exit code returns that
\* exit code and changes neither the program counter, the registers nor the
\* storage
C4_StoppedTickIsIdle ==
    (last.op = "tick" /\ last.pre.state # "None")
        => (last.ret = last.pre.state /\ Snapshot = last.pre)
\* a tick on a processor stopped by a division by zero, after the host made
\* the divisor register non-zero
C4_Witness ==
    /\ last.op = "tick"
    /\ last.pre.state = "DivisionByZero"
    /\ last.pre.registers[T0] = 4
    /\ Field(FromBytes(SubSeq(instructions, 1, 4)), RS2_MASK, RS2_OFFSET) = T0

\* C5: a Jump whose target is not a multiple of 4 terminates with
\* BadAlignment, also when the target is at or beyond the buffer length;
\* BadJump is returned only for an aligned target at or beyond the length
C5_AlignmentBeforeRange ==
    (RanTick /\ last.result.kind = "Jump")
        => /\ (last.result.target % 4 # 0 => last.ret = "BadAlignment")
           /\ (last.ret = "BadJump"
                 => /\ last.result.target % 4 = 0
                    /\ ~ULt(last.result.target, InstrLen))
\* a misaligned target beyond the end of the buffer
C5_Witness ==
    /\ RanTick
    /\ last.result.kind = "Jump"
    /\ last.result.target % 4 # 0
    /\ last.result.target >= InstrLen
    /\ last.ret = "BadAlignment"

\* C6: a tick that terminates the processor, with any exit code, leaves the
\* program counter, all 32 registers and the storage as they were before it
C6_TerminatingTickChangesNothing ==
    (RanTick /\ last.ret # "None")
        => /\ registers = last.pre.registers
           /\ program_counter = last.pre.program_counter
           /\ StorageBytes(storage) = last.pre.bytes
\* a division by zero with a non-zero remainder register
C6_Witness ==
    /\ RanTick
    /\ last.ret = "DivisionByZero"
    /\ last.pre.registers[RM] # 0
    /\ registers[RM] = last.pre.registers[RM]

\* C7: a linking jump to an aligned target inside the buffer sets RA to
\* pc + 4 when pc + 4 is below the buffer length and to 0 otherwise, moves
\* the program counter to the target and does not terminate
C7_LinkWraps ==
    (RanTick /\ last.result.kind = "Jump" /\ last.result.link
       /\ last.result.target % 4 = 0 /\ ULt(last.result.target, InstrLen))
        => /\ registers[RA] = IF last.pre.program_counter + 4 < InstrLen
                              THEN last.pre.program_counter + 4 ELSE 0
           /\ program_counter = last.result.target
           /\ state = "None"
           /\ last.ret = "None"
\* a linking jump taken from the last word of the buffer
C7_Witness ==
    /\ RanTick
    /\ last.result.kind = "Jump"
    /\ last.result.link
    /\ last.ret = "None"
    /\ last.pre.program_counter + 4 >= InstrLen
    /\ last.pre.program_counter > 0
    /\ registers[RA] = 0

C9_NextAdvancesOrWraps ==
    (RanTick /\ last.result.kind = "Next")
        => /\ program_counter = IF last.pre.program_counter + 4 < InstrLen
                                THEN last.pre.program_counter + 4 ELSE 0
           /\ state = "None"
           /\ last.ret = "None"
\* the program counter wrapped from the last word to 0
C9_Witness ==
    /\ RanTick
    /\ last.result.kind = "Next"
    /\ last.pre.program_counter > 0
    /\ last.pre.program_counter + 4 = InstrLen
    /\ program_counter = 0

\* ------------------------------------------------------------------------
\* A composite driven by a host (specification CompositeSpec)
\* ------------------------------------------------------------------------
MaxOps == 4        \* the host makes at most MaxOps calls on the composite

CompositeKeys == {"a", "b", "c"}
\* base addresses; -2 is the word 0xFFFFFFFE
CompositeBases == {0, 3, -2}
ChildLengths == {0, 2, 4}

\* the fields of the processor, which this specification leaves alone
IdleProcessor ==
    /\ registers = ZeroRegisters
    /\ program_counter = 0
    /\ state = "None"
    /\ instructions = << >>

CompositeInit ==
    /\ IdleProcessor
    /\ storage = Plain(<< >>)
    /\ fragments = << >>
    /\ registry = EmptyMap
    /\ overflow_checks \in BOOLEAN
    /\ panicked = FALSE
    /\ steps = 0
    /\ last = [op |-> "init"]
    /\ assembler = NoAssembler

Composite == [fragments |-> fragments, registry |-> registry]

\* the host calls composite.mount(base, key, child); the child is a fresh
\* zeroed buffer, identified by the key and the time of the call; remount
\* records that the preceding call was unmount(key) and returned a child
Mount ==
    /\ ~panicked
    /\ steps < MaxOps
    /\ \E base \in CompositeBases, key \in CompositeKeys, length \in ChildLengths :
         LET child == [id |-> << key, steps >>, data |-> Memory_new(length)]
             r == mount(fragments, registry, base, key, child)
         IN /\ fragments' = r.fragments
            /\ registry' = r.registry
            /\ panicked' = (r.res = "panic")
            /\ last' = [op |-> "mount", pre |-> Composite, key |-> key,
                        base |-> base, child |-> child, res |-> r.res,
                        remount |-> /\ last.op = "unmount"
                                    /\ last.key = key
                                    /\ last.res = "some"]
    /\ steps' = steps + 1
    /\ UNCHANGED << registers, program_counter, state, instructions, storage,
                    overflow_checks,
                 assembler >>

\* the host calls composite.unmount(key); before records the composite as it
\* was before the preceding call when that call mounted key successfully
Unmount ==
    /\ ~panicked
    /\ steps < MaxOps
    /\ \E key \in CompositeKeys :
         LET r == unmount(fragments, registry, key)
             undoes == last.op = "mount" /\ last.res = "ok" /\ last.key = key
         IN /\ fragments' = r.fragments
            /\ registry' = r.registry
            /\ panicked' = (r.res = "panic")
            /\ last' = [op |-> "unmount", pre |-> Composite, key |-> key,
                        res |-> r.res, child |-> r.child, undoes |-> undoes,
                        before |-> IF undoes THEN last.pre ELSE Composite,
                        mounted |-> IF undoes THEN last.child ELSE NoFragment]
    /\ steps' = steps + 1
    /\ UNCHANGED << registers, program_counter, state, instructions, storage,
                    overflow_checks,
                 assembler >>

\* addresses, sizes and the value of the host's accesses to the composite
AccessAddresses == {0, 2, 3, 4}
AccessSizes == {1, 2}
AccessValue == 7

\* the host calls composite.read(address, size)
CompositeRead ==
    /\ ~panicked
    /\ steps < MaxOps
    /\ \E address \in AccessAddresses, size \in AccessSizes :
         \E index \in get_index(fragments, address) :
           \E r \in {CompositeMemory_read(fragments, address, size, index)} :
              /\ panicked' = (r.res = "panic")
              /\ last' = [op |-> "read", pre |-> Composite,
                          address |-> address, size |-> size,
                          res |-> r.res, value |-> r.value]
    /\ steps' = steps + 1
    /\ UNCHANGED << registers, program_counter, state, instructions, storage,
                    fragments, registry, overflow_checks,
                 assembler >>

\* the host calls composite.write(address, size, value)
CompositeWrite ==
    /\ ~panicked
    /\ steps < MaxOps
    /\ \E address \in AccessAddresses, size \in AccessSizes :
         \E index \in get_index(fragments, address) :
           \E r \in {CompositeMemory_write(fragments, address, size,
                                           AccessValue, index)} :
              /\ fragments' = r.fragments
              /\ panicked' = (r.res = "panic")
              /\ last' = [op |-> "write", pre |-> Composite,
                          address |-> address, size |-> size,
                          res |-> r.res, value |-> AccessValue]
    /\ steps' = steps + 1
    /\ UNCHANGED << registers, program_counter, state, instructions, storage,
                    registry, overflow_checks,
                 assembler >>

CompositeNext == Mount \/ Unmount \/ CompositeRead \/ CompositeWrite

CompositeSpec == CompositeInit /\ [][CompositeNext]_vars

\* the children of a fragment list
Children(frags) == {frags[i].frag : i \in 1..Len(frags)}

\* C2: unmount(k) on a bound key returns exactly the child that was mounted
\* under k and removes that child, and no other, from the composite
C2_UnmountReturnsItsChild ==
    (last.op = "unmount" /\ last.key \in DOMAIN last.pre.registry)
        => /\ last.res = "some"
           /\ last.child.id[1] = last.key
           /\ Children(fragments) = Children(last.pre.fragments) \ {last.child}

\* C3: a successful mount(base, k, S) followed at once by unmount(k) leaves
\* the composite as it was before the mount: the same ordered list of
\* (base, child) pairs and the same bindings; the unmount returns S
C3_MountUnmountRestores ==
    (last.op = "unmount" /\ last.undoes)
        => /\ last.res = "some"
           /\ last.child = last.mounted
           /\ fragments = last.before.fragments
           /\ registry = last.before.registry
\* the mount placed the child in front of a fragment already mounted
C3_Witness ==
    /\ last.op = "unmount"
    /\ last.undoes
    /\ last.res = "some"
    /\ Len(last.pre.fragments) > 1
    /\ last.pre.fragments[Len(last.pre.fragments)].frag # last.mounted
    /\ fragments = last.before.fragments

\* ------------------------------------------------------------------------
\* A plain or observed storage accessed by a host (specification
\* StorageSpec)
\* ------------------------------------------------------------------------
MaxAccesses == 2   \* the host makes at most MaxAccesses accesses

\* addresses, access sizes, slice lengths and values the host uses; -1 is
\* the word 0xFFFFFFFF
Addresses == {0, 1, StorageLen - 1, StorageLen, -1}
Sizes == {1, 2, 3, 4}
SliceLengths == {0, 2, -1}
Values == {7, 258}

StorageInit ==
    /\ IdleProcessor
    /\ storage \in {Plain(Memory_new(StorageLen))}
                     \cup {Observed(IOMemory_new(StorageLen, h)) : h \in Handlers}
    /\ fragments = << >>
    /\ registry = EmptyMap
    /\ overflow_checks \in BOOLEAN
    /\ panicked = FALSE
    /\ steps = 0
    /\ last = [op |-> "init"]
    /\ assembler = NoAssembler

StorageUnchanged ==
    UNCHANGED << registers, program_counter, state, instructions, fragments,
                 registry, overflow_checks,
                 assembler >>

\* the host calls storage.read(address, size)
Read ==
    /\ ~panicked
    /\ steps < MaxAccesses
    /\ \E address \in Addresses, size \in Sizes :
         LET r == Storage_read(storage, address, size)
         IN /\ panicked' = (r.res = "panic")
            /\ last' = [op |-> "read", pre |-> StorageBytes(storage),
                        address |-> address, size |-> size, res |-> r.res,
                        value |-> r.value]
    /\ storage' = storage
    /\ steps' = steps + 1
    /\ StorageUnchanged

\* the host calls storage.write(address, size, value)
Write ==
    /\ ~panicked
    /\ steps < MaxAccesses
    /\ \E address \in Addresses, size \in Sizes, value \in Values :
         LET r == Storage_write(storage, address, size, value)
         IN /\ storage' = r.storage
            /\ panicked' = (r.res = "panic")
            /\ last' = [op |-> "write", pre |-> StorageBytes(storage),
                        address |-> address, size |-> size, res |-> r.res,
                        value |-> value]
    /\ steps' = steps + 1
    /\ StorageUnchanged

\* the host calls memory.borrow_slice(address, length) on a plain buffer
Borrow ==
    /\ ~panicked
    /\ steps < MaxAccesses
    /\ storage.kind = "plain"
    /\ \E address \in Addresses, length \in SliceLengths :
         LET r == Memory_borrow_slice(storage.data, address, length)
         IN /\ panicked' = (r.res = "panic")
            /\ last' = [op |-> "borrow", pre |-> StorageBytes(storage),
                        address |-> address, size |-> length, res |-> r.res,
                        value |-> 0,
                        in_range |-> Memory_check_range(storage.data, address,
                                                        length)]
    /\ storage' = storage
    /\ steps' = steps + 1
    /\ StorageUnchanged

StorageNext == Read \/ Write \/ Borrow

StorageSpec == StorageInit /\ [][StorageNext]_vars

\* address + length <= len, the sum taken without overflow
InRange(len, address, length) ==
    ~UAddOverflows(address, length) /\ ULe(Add32(address, length), len)

\* C10: a read, write or borrow whose range is not in-range returns failure
\* and leaves the storage contents unchanged, for every storage variant
C10_OutOfRangeFails ==
    (last.op \in {"read", "write", "borrow"}
       /\ ~InRange(Len(last.pre), last.address, last.size))
        => (last.res = "err" /\ StorageBytes(storage) = last.pre)

\* a write to an observed storage, and the handler calls it made
ObservedWrite == last.op = "write" /\ storage.kind = "io"
HandlerCalls == storage.io.calls
Admitted ==
    IOHandler_can_write(storage.io.handler, last.pre, last.address, last.size)

C12_HandlerProtocol ==
    ObservedWrite
        => /\ Len(HandlerCalls) >= 1
           /\ HandlerCalls[1] = [call |-> "can_write", memory |-> last.pre,
                                 address |-> last.address, size |-> last.size]
           /\ \A i \in 2..Len(HandlerCalls) : HandlerCalls[i].call = "on_write"
           /\ Len(HandlerCalls) = IF Admitted /\ last.res = "ok" THEN 2 ELSE 1
           /\ Len(HandlerCalls) = 2
                => HandlerCalls[2] = [call |-> "on_write",
                                      memory |-> StorageBytes(storage),
                                      address |-> last.address,
                                      size |-> last.size]
\* an admitted write that changed the buffer, seen changed by on_write
C12_Witness ==
    /\ ObservedWrite
    /\ Admitted
    /\ last.res = "ok"
    /\ StorageBytes(storage) # last.pre
    /\ Len(HandlerCalls) = 2
    /\ HandlerCalls[2].memory = StorageBytes(storage)

\* C13: for any storage and any address and size in {1,2,3,4} that are
\* in-range, write(address, size, v) followed by read(address, size)
\* returns v mod 2^(8*size), the low size bytes of v
C13_WriteThenRead ==
    (last.op = "write" /\ InRange(Len(last.pre), last.address, last.size))
        => /\ last.res = "ok"
           /\ Storage_read(storage, last.address, last.size)
                = [res |-> "ok", value |-> FromBytes(ToBytes(last.value, last.size))]

\* C14: for a storage of length L, check_range(addr, len) is true exactly
\* when addr <= L and the non-wrapping sum addr + len <= L, and
\* borrow_slice(addr, len) returns failure, without panicking, whenever the
\* range is not in-range
C14_InRangeExact ==
    last.op = "borrow"
        => /\ last.in_range
                = (IF InRange(Len(last.pre), last.address, last.size)
                   THEN "true" ELSE "false")
           /\ ~InRange(Len(last.pre), last.address, last.size)
                => last.res = "err"

\* the end of the range of the i-th fragment of the list
FragmentEnd(frags, i) == Add32(frags[i].addr, Fragment_length(frags[i].frag))

\* C15: in every composite reachable by mount and unmount calls, every
\* pair of adjacent fragments (b_i, S_i), (b_j, S_j) in list order has
\* b_i + length(S_i) <= b_j
C15_FragmentsOrdered ==
    \A i \in 1..(Len(fragments) - 1) :
        /\ ~UAddOverflows(fragments[i].addr, Fragment_length(fragments[i].frag))
        /\ ULe(FragmentEnd(fragments, i), fragments[i + 1].addr)
\* two non-empty children mounted with a gap between them, the lower one
\* mounted last
C15_Witness ==
    /\ last.op = "mount"
    /\ last.res = "ok"
    /\ Len(fragments) >= 2
    /\ fragments[1].frag = last.child
    /\ Fragment_length(fragments[1].frag) > 0
    /\ Fragment_length(fragments[2].frag) > 0
    /\ ULt(FragmentEnd(fragments, 1), fragments[2].addr)

\* C16: mount(base, key, child) with an unbound key and a range that does
\* not overflow fails with FragmentIntersection exactly when
\* [base, base+length(child)) shares an address with the range of a mounted
\* child; a failed mount leaves the fragment list and the bindings unchanged
C16_IntersectionIffOverlap ==
    (/\ last.op = "mount"
     /\ last.key \notin DOMAIN last.pre.registry
     /\ ~UAddOverflows(last.base, Fragment_length(last.child)))
        => LET frags == last.pre.fragments
               upper == Add32(last.base, Fragment_length(last.child))
               Overlaps(i) ==
                   /\ ULt(last.base, upper)
                   /\ ULt(frags[i].addr, FragmentEnd(frags, i))
                   /\ ULt(last.base, FragmentEnd(frags, i))
                   /\ ULt(frags[i].addr, upper)
           IN /\ (last.res = "FragmentIntersection")
                    <=> (\E i \in 1..Len(frags) : Overlaps(i))
              /\ last.res # "ok" => Composite = last.pre

\* C17: mount(base, key, child) with a bound key fails with
\* KeyAlreadyExists whatever base and child are and leaves the fragment list
\* and the bindings unchanged; a mount of the key that follows unmount(key)
\* does not fail with KeyAlreadyExists
C17_KeysAreUnique ==
    last.op = "mount"
        => /\ last.key \in DOMAIN last.pre.registry
                => (last.res = "KeyAlreadyExists" /\ Composite = last.pre)
           /\ last.remount => last.res # "KeyAlreadyExists"
\* a key was bound, unmounted and is bound again by the mount that
\* follows the unmount
C17_Witness ==
    /\ last.op = "mount"
    /\ last.remount
    /\ last.res = "ok"
    /\ last.key \in DOMAIN registry
    /\ last.key \notin DOMAIN last.pre.registry

\* C18: a read or write at address A on a composite is applied to the
\* unique mounted child whose range [b, b+length) contains A, at offset
\* A-b; an access whose address lies in no child's range (below the first
\* base, in a gap, or at or past the end of its predecessor) fails
C18_AccessRoutedToOwner ==
    last.op \in {"read", "write"}
        => LET frags == last.pre.fragments
               owners == {i \in 1..Len(frags) :
                             /\ ULe(frags[i].addr, last.address)
                             /\ ULt(last.address, FragmentEnd(frags, i))}
               Applied(i) ==
                   LET local == Sub32(last.address, frags[i].addr)
                       data == frags[i].frag.data
                       r == Memory_read(data, local, last.size)
                       w == Memory_write(data, local, last.size, last.value)
                   IN IF last.op = "read"
                      THEN /\ last.res = r.res
                           /\ last.value = r.value
                           /\ fragments = frags
                      ELSE /\ last.res = w.res
                           /\ fragments = [frags EXCEPT ![i].frag.data = w.data]
           IN /\ Cardinality(owners) <= 1
              /\ \A i \in owners : Applied(i)
              /\ owners = {} => (last.res = "err" /\ fragments = frags)

\* ------------------------------------------------------------------------
\* The assembler (src/vasm/src): specification AsmSpec.  The source is the
\* tree the grammar yields: a data section of labelled blocks and an
\* instruction section of labelled instructions.  A run of count equal
\* instructions is held as one entry with that count, which stands for
\* count consecutive elements of the instruction vector.
\* ------------------------------------------------------------------------
\* instr.len() counted one per entry, whatever its count
parsed_len_entries(instr) == Len(instr)

\* instr.len(): the number of instructions the entries stand for
RECURSIVE parsed_len(_)
parsed_len(instr) ==
    IF instr = << >> THEN 0
    ELSE instr[Len(instr)].count + parsed_len(SubSeq(instr, 1, Len(instr) - 1))

\* process_labeled_element: labels.insert(label, len) when a label precedes
\* the element
insert_label(labels, label, len) ==
    IF label = "" THEN labels ELSE MapInsert(labels, label, len)

\* process_instruction: the parsed instructions one source instruction
\* pushes, as [res, instr]; res is "ok", a diagnostic message or "panic".
\* `*address + data_offset` is a u32 addition: it panics on overflow in a
\* build with overflow checks and wraps otherwise
process_instruction(instr, data_labels, data_offset, item) ==
    LET Complete(word, count) ==
            [kind |-> "Complete", word |-> word, count |-> count]
        \* `x as i16` of an i32
        AsI16(x) == IF LoHalf(x) >= Pow2(15) THEN LoHalf(x) - Pow2(16)
                    ELSE LoHalf(x)
        pushed ==
          CASE item.rule = "instruction_push" ->
                 [res |-> "ok",
                  new |-> << Complete(make_i_instruction("SW", item.reg, "SP",
                                                         -4), 1),
                             Complete(make_i_instruction("SUBI", "SP", "SP",
                                                         4), 1) >>]
            [] item.rule = "instruction_pop" ->
                 [res |-> "ok",
                  new |-> << Complete(make_i_instruction("LW", item.reg, "SP",
                                                         0), 1),
                             Complete(make_i_instruction("ADDI", "SP", "SP",
                                                         4), 1) >>]
            [] item.rule = "instruction_lwi" ->
                 [res |-> "ok",
                  new |-> << Complete(make_i_instruction(
                                "SLO", item.reg, "ZERO", AsI16(item.value)), 1),
                             Complete(make_i_instruction(
                                "SHI", item.reg, "ZERO",
                                AsI16(Sar32(item.value, 16))), 1) >>]
            [] item.rule = "instruction_e" ->
                 [res |-> "ok",
                  new |-> << Complete(make_i_instruction(item.opcode, "ZERO",
                                                         "ZERO", 0),
                                      item.count) >>]
            [] item.rule = "instruction_br" ->
                 [res |-> "ok",
                  new |-> << [kind |-> "Branch", opcode |-> item.opcode,
                              rs1 |-> item.reg, target |-> item.target,
                              count |-> 1] >>]
            [] item.rule = "instruction_j" ->
                 [res |-> "ok",
                  new |-> << [kind |-> "Jump", opcode |-> item.opcode,
                              target |-> item.target, count |-> 1] >>]
            [] item.rule = "instruction_lda" ->
                 IF item.target.label \notin DOMAIN data_labels
                 THEN [res |-> "Data label was not found", new |-> << >>]
                 ELSE LET address == data_labels[item.target.label]
                          offset_address == Add32(address, data_offset)
                      IN IF UAddOverflows(address, data_offset) /\ overflow_checks
                         THEN [res |-> "panic", new |-> << >>]
                         ELSE [res |-> "ok",
                               new |-> << Complete(make_i_instruction(
                                             "SLO", item.reg, "ZERO",
                                             offset_address), 1),
                                          Complete(make_i_instruction(
                                             "SHI", item.reg, "ZERO",
                                             Shr32(offset_address, 16)), 1) >>]
            [] item.rule = "instruction_lia" ->
                 [res |-> "ok",
                  new |-> << [kind |-> "LoadInstructionAddress",
                              label |-> item.target.label, rd |-> item.reg,
                              upper |-> FALSE, count |-> 1],
                             [kind |-> "LoadInstructionAddress",
                              label |-> item.target.label, rd |-> item.reg,
                              upper |-> TRUE, count |-> 1] >>]
        \* (u32::max_value() / WORD_BYTES) - 1
        max_size == (MaxI32 \div 2) - 1
    IN IF pushed.res # "ok" THEN [res |-> pushed.res, instr |-> instr]
       ELSE IF parsed_len(instr \o pushed.new) > max_size
       THEN [res |-> "Instructions exceed maximum size",
             instr |-> instr \o pushed.new]
       ELSE [res |-> "ok", instr |-> instr \o pushed.new]

\* resolve_jump_target::<T>: the literal address, or the i64 byte distance
\* to the label cast with NumCast to T, which fails when the distance lies
\* outside T's range min..max
resolve_jump_target(labels, target, current_instr, min, max) ==
    IF target.kind = "Address" THEN [res |-> "ok", value |-> target.address]
    ELSE IF target.label \notin DOMAIN labels
    THEN [res |-> "Label not found", value |-> 0]
    ELSE LET absolute == labels[target.label]
             relative == absolute - current_instr
             byte_dist == relative * WORD_BYTES
         IN IF byte_dist >= min /\ byte_dist <= max
            THEN [res |-> "ok", value |-> byte_dist]
            ELSE [res |-> "Jump distance too far", value |-> 0]

\* finalize_instruction: the word of a parsed instruction, as [res, word];
\* a branch resolves its target as an Immediate (i16), a jump as an Address
\* (i32)
finalize_instruction(labels, instr, current_instr) ==
    CASE instr.kind = "Complete" -> [res |-> "ok", word |-> instr.word]
      [] instr.kind = "Branch" ->
           LET t == resolve_jump_target(labels, instr.target, current_instr,
                                        -Pow2(15), Pow2(15) - 1)
           IN [res |-> t.res,
               word |-> make_i_instruction(instr.opcode, "ZERO", instr.rs1,
                                           t.value)]
      [] instr.kind = "Jump" ->
           LET t == resolve_jump_target(labels, instr.target, current_instr,
                                        MinI32, MaxI32)
           IN [res |-> t.res, word |-> make_j_instruction(instr.opcode, t.value)]
      [] instr.kind = "LoadInstructionAddress" ->
           IF instr.label \notin DOMAIN labels
           THEN [res |-> "Label not found", word |-> 0]
           ELSE LET address == labels[instr.label] * WORD_BYTES
                IN [res |-> "ok",
                    word |-> IF instr.upper
                             THEN make_i_instruction("SHI", instr.rd, "ZERO",
                                                     Shr32(address, 16))
                             ELSE make_i_instruction("SLO", instr.rd, "ZERO",
                                                     address)]

\* the loop `for _ in 0..count { source_map.push(source_map_item) }` of
\* process_instructions, for the statements one item stands for: count
\* entries in all, the same number for each of its statements.  The entries
\* are held as one block [start_line, line_count, count, statements]: the
\* entries of statement j (from 0) are (start_line + j * line_count,
\* line_count)
push_source_map_once(source_map, item, count) ==
    LET statements == IF item.rule = "instruction_e" THEN item.count ELSE 1
    IN Append(source_map, [start_line |-> item.start_line,
                           line_count |-> item.line_count,
                           count |-> statements, statements |-> statements])
push_source_map(source_map, item, count) ==
    Append(source_map, [start_line |-> item.start_line,
                        line_count |-> item.line_count, count |-> count,
                        statements |-> IF item.rule = "instruction_e"
                                       THEN item.count ELSE 1])

\* the sources assembled: a data section, an instruction section and a
\* data_offset (-1 is the word 0xFFFF_FFFF).  An instruction section is a
\* reference to the label a or d, alone, after a labelled run of NOPs, or
\* before a run and the labelled HALT; or a shorthand (PUSH, POP, LWI)
\* before the labelled HALT or before a labelled shorthand.  The run lengths
\* lie around the reach of a branch (2^13 instructions) and of a jump (2^23
\* instructions).  Every statement carries the lines of its span: the
\* section headers and the data elements take one line each, a statement
\* one line, and two when its label stands on a line of its own
Sources ==
    LET RunLengths ==
            {1, Pow2(13) - 2, Pow2(13) - 1, Pow2(13), Pow2(13) + 1,
             Pow2(23) - 2, Pow2(23) - 1, Pow2(23), Pow2(23) + 1}
        Label(name) == [kind |-> "Label", label |-> name]
        Halt(label) == [label |-> label, rule |-> "instruction_e",
                        opcode |-> "HALT", count |-> 1]
        Runs(label) ==
            {[label |-> label, rule |-> "instruction_e", opcode |-> "NOP",
              count |-> n] : n \in RunLengths}
        References ==
            {[label |-> "", rule |-> "instruction_br", opcode |-> oc,
              reg |-> "T0", target |-> Label("a")] : oc \in {"BEZ", "BNZ"}}
            \cup {[label |-> "", rule |-> "instruction_j", opcode |-> oc,
                   target |-> t] :
                    oc \in {"JMP", "JL"},
                    t \in {Label("a"), [kind |-> "Address", address |-> 8]}}
            \cup {[label |-> "", rule |-> r, reg |-> "T0",
                   target |-> Label(l)] :
                    r \in {"instruction_lda", "instruction_lia"},
                    l \in {"a", "d"}}
        Shorthands(label) ==
            {[label |-> label, rule |-> r, reg |-> "T0"] :
                r \in {"instruction_push", "instruction_pop"}}
            \cup {[label |-> label, rule |-> "instruction_lwi", reg |-> rd,
                   value |-> v] :
                    rd \in {"T0", "RA"},
                    v \in {0, -1, 305419896, 65535, 2147450880, MinI32}}
        InstructionSections ==
            {<< ref >> : ref \in References}
            \cup {<< run, ref >> : run \in Runs("a"), ref \in References}
            \cup {<< ref, run, Halt("a") >> :
                    ref \in References, run \in Runs("")}
            \cup {<< short, Halt("a") >> : short \in Shorthands("")}
            \cup {<< first, second, Halt("") >> :
                    first \in Shorthands(""), second \in Shorthands("a")}
        DataSections ==
            {<< >>,
             << [label |-> "d", size |-> 4] >>,
             << [label |-> "", size |-> 4], [label |-> "d", size |-> 2] >>}
        Span(item) ==
            IF item.label # "" /\ (item.rule # "instruction_e" \/ item.count = 1)
            THEN 2 ELSE 1
        Lines(item) ==
            IF item.rule = "instruction_e" THEN item.count * Span(item)
            ELSE Span(item)
        LinesBefore(section, k) ==
            IF k = 1 THEN 0
            ELSE IF k = 2 THEN Lines(section[1])
            ELSE Lines(section[1]) + Lines(section[2])
        Spanned(section, first_line) ==
            [k \in 1..Len(section) |->
                [start_line |-> first_line + LinesBefore(section, k),
                 line_count |-> Span(section[k])] @@ section[k]]
    IN {[data |-> data,
         instructions |-> Spanned(section, Len(data) + 3),
         data_offset |-> data_offset] :
          data \in DataSections, section \in InstructionSections,
          data_offset \in {0, Pow2(16) + 4, -1}}

AsmInit ==
    /\ IdleProcessor
    /\ storage = Plain(<< >>)
    /\ fragments = << >>
    /\ registry = EmptyMap
    /\ overflow_checks \in BOOLEAN
    /\ panicked = FALSE
    /\ steps = 0
    /\ last = [op |-> "init"]
    /\ \E source \in Sources :
         assembler = [phase |-> IF source.data = << >>
                                THEN "instructions" ELSE "data",
                      data |-> source.data,
                      instructions |-> source.instructions,
                      data_offset |-> source.data_offset, pos |-> 1,
                      data_len |-> 0, data_labels |-> EmptyMap,
                      instr |-> << >>, labels |-> EmptyMap,
                      source_map |-> << >>, words |-> << >>,
                      result |-> "none"]

\* process_data: one labelled data element (a block of size bytes)
ProcessDataElement ==
    /\ assembler.phase = "data"
    /\ LET element == assembler.data[assembler.pos]
           done == assembler.pos = Len(assembler.data)
       IN assembler' =
            [assembler EXCEPT
               !.data_labels = insert_label(@, element.label, assembler.data_len),
               !.data_len = @ + element.size,
               !.pos = IF done THEN 1 ELSE @ + 1,
               !.phase = IF done THEN "instructions" ELSE "data"]
    /\ panicked' = panicked
    /\ steps' = steps + 1
    /\ UNCHANGED << registers, program_counter, state, instructions, storage,
                    fragments, registry, overflow_checks, last >>

\* process_instructions: one labelled instruction of the source
ProcessInstruction ==
    /\ assembler.phase = "instructions"
    /\ LET item == assembler.instructions[assembler.pos]
           done == assembler.pos = Len(assembler.instructions)
       IN \E r \in {process_instruction(assembler.instr, assembler.data_labels,
                                        assembler.data_offset, item)} :
            /\ assembler' =
                 [assembler EXCEPT
                    !.labels = insert_label(@, item.label,
                                            parsed_len(assembler.instr)),
                    !.instr = r.instr,
                    !.source_map =
                        IF r.res = "ok"
                        THEN push_source_map(@, item,
                                             parsed_len(r.instr)
                                                 - parsed_len(assembler.instr))
                        ELSE @,
                    !.pos = IF r.res = "ok" /\ ~done THEN @ + 1 ELSE 1,
                    !.phase = IF r.res = "panic" THEN "panic"
                              ELSE IF r.res # "ok" THEN "error"
                              ELSE IF done THEN "finalize"
                              ELSE "instructions",
                    !.result = IF r.res = "ok" THEN "none" ELSE r.res]
            /\ panicked' = (r.res = "panic")
    /\ steps' = steps + 1
    /\ UNCHANGED << registers, program_counter, state, instructions, storage,
                    fragments, registry, overflow_checks, last >>

\* assemble_instructions: finalize_instruction for one parsed instruction;
\* words records what each call returned
FinalizeInstruction ==
    /\ assembler.phase = "finalize"
    /\ LET k == assembler.pos
           current_instr == parsed_len(SubSeq(assembler.instr, 1, k - 1))
           done == k = Len(assembler.instr)
       IN \E r \in {finalize_instruction(assembler.labels, assembler.instr[k],
                                         current_instr)} :
            assembler' =
              [assembler EXCEPT
                 !.words = Append(@, [res |-> r.res, word |-> r.word,
                                      index |-> current_instr]),
                 !.pos = IF r.res = "ok" /\ ~done THEN @ + 1 ELSE @,
                 !.phase = IF r.res # "ok" THEN "error"
                           ELSE IF done THEN "done"
                           ELSE "finalize",
                 !.result = IF r.res # "ok" THEN r.res
                            ELSE IF done THEN "ok"
                            ELSE "none"]
    /\ panicked' = panicked
    /\ steps' = steps + 1
    /\ UNCHANGED << registers, program_counter, state, instructions, storage,
                    fragments, registry, overflow_checks, last >>

AsmNext == ProcessDataElement \/ ProcessInstruction \/ FinalizeInstruction

AsmSpec == AsmInit /\ [][AsmNext]_vars

\* C19: for every source and every 32-bit data_offset, assembling returns
\* an executable or a diagnostic and never panics
C19_AssemblerNeverPanics ==
    /\ assembler.phase # "panic"
    /\ ~panicked
    /\ assembler.phase \in {"done", "error"}
         => assembler.result \in {"ok", "Data label was not found",
                                  "Instructions exceed maximum size",
                                  "Label not found", "Jump distance too far"}

\* C20: for a branch or jump at instruction index i whose target is a
\* label bound to index L, assembly fails with "Jump distance too far"
\* exactly when the byte distance (L - i) * 4 does not fit the destination
\* field (signed 16 bits for BEZ and BNZ, signed 26 bits for JMP and JL),
\* and every accepted distance is encoded without loss
C20_JumpDistance ==
    \A k \in 1..Len(assembler.words) :
        LET instr == assembler.instr[k]
            out == assembler.words[k]
            bits == IF instr.kind = "Branch" THEN 16 ELSE 26
            distance == (assembler.labels[instr.target.label] - out.index)
                            * WORD_BYTES
            fits == distance >= -Pow2(bits - 1) /\ distance <= Pow2(bits - 1) - 1
            immediate == Field(out.word, IMMEDIATE_MASK, IMMEDIATE_OFFSET)
            decoded == IF instr.kind = "Branch"
                       THEN (IF immediate >= Pow2(15)
                             THEN immediate - Pow2(16) ELSE immediate)
                       ELSE extend_address(Field(out.word, ADDRESS_MASK,
                                                 ADDRESS_OFFSET))
        IN (/\ instr.kind \in {"Branch", "Jump"}
            /\ instr.target.kind = "Label"
            /\ instr.target.label \in DOMAIN assembler.labels)
               => /\ (out.res = "Jump distance too far") <=> ~fits
                  /\ out.res = "ok" => decoded = distance

\* C21: for a BEZ, BNZ, JMP or JL at instruction index i whose target is a
\* label bound to index L, a successful assembly encodes the byte distance
\* (L - i) * 4, so that the processor at program counter 4 * i, taking the
\* jump, sets the program counter to 4 * L
C21_TakenJumpReachesLabel ==
    \A k \in 1..Len(assembler.words) :
        LET instr == assembler.instr[k]
            out == assembler.words[k]
            taken == IF instr.kind = "Branch" /\ instr.opcode = "BNZ"
                     THEN register_mut_set(ZeroRegisters, instr.rs1, 1)
                     ELSE ZeroRegisters
            pc == out.index * WORD_BYTES
            after == match_tick_result(
                         pc, parsed_len(assembler.instr) * WORD_BYTES,
                         logic_tick(taken, Plain(<< >>), out.word, pc, 0))
        IN (/\ instr.kind \in {"Branch", "Jump"}
            /\ instr.target.kind = "Label"
            /\ instr.target.label \in DOMAIN assembler.labels
            /\ out.res = "ok")
               => /\ after.state = "None"
                  /\ after.program_counter =
                        assembler.labels[instr.target.label] * WORD_BYTES

\* the number of instructions a source statement (or run of statements)
\* emits: two for PUSH, POP, LWI, LDA and LIA, one for any other statement
EmittedBy(item) ==
    IF item.rule = "instruction_e" THEN item.count
    ELSE IF item.rule \in {"instruction_push", "instruction_pop",
                           "instruction_lwi", "instruction_lda",
                           "instruction_lia"}
    THEN 2
    ELSE 1

\* the number of instructions emitted by the statements before statement k
RECURSIVE EmittedBefore(_, _)
EmittedBefore(items, k) ==
    IF k = 1 THEN 0
    ELSE EmittedBefore(items, k - 1) + EmittedBy(items[k - 1])

\* the statements of the instruction section that have been processed
ProcessedStatements ==
    IF assembler.phase = "instructions" THEN 1..(assembler.pos - 1)
    ELSE IF assembler.phase \in {"finalize", "done"}
              \/ (assembler.phase = "error" /\ assembler.words # << >>)
    THEN 1..Len(assembler.instructions)
    ELSE {}

\* C22: a label of the instruction section is bound to the index of the
\* first instruction emitted for the statement it precedes, the indices
\* counting emitted instructions: each PUSH, POP, LWI, LDA and LIA before
\* it counts as two
C22_LabelBoundToFirstEmitted ==
    \A k \in ProcessedStatements :
        LET item == assembler.instructions[k]
        IN item.label # ""
             => /\ item.label \in DOMAIN assembler.labels
                /\ assembler.labels[item.label]
                     = EmittedBefore(assembler.instructions, k)

\* an assembled source whose label follows two shorthands and is bound to 2
\* or follows one and is bound to 2, the label itself on a shorthand
C22_Witness ==
    /\ assembler.result = "ok"
    /\ \E k \in 2..Len(assembler.instructions) :
         /\ assembler.instructions[k].label # ""
         /\ assembler.instructions[k].rule = "instruction_lwi"
         /\ assembler.instructions[k - 1].rule = "instruction_push"
         /\ assembler.labels[assembler.instructions[k].label] = 2

\* the number of entries of a source map held in blocks
RECURSIVE SourceMapLen(_)
SourceMapLen(source_map) ==
    IF source_map = << >> THEN 0
    ELSE Head(source_map).count + SourceMapLen(Tail(source_map))

\* source_map[i] (i from 0) of a source map held in blocks
RECURSIVE SourceMapEntry(_, _)
SourceMapEntry(source_map, i) ==
    LET block == Head(source_map)
        each == block.count \div block.statements
    IN IF i < block.count
       THEN [start_line |-> block.start_line + (i \div each) * block.line_count,
             line_count |-> block.line_count]
       ELSE SourceMapEntry(Tail(source_map), i - block.count)

\* the span of the statement that emits instruction i (i from 0)
RECURSIVE StatementOf(_, _)
StatementOf(items, i) ==
    LET item == Head(items)
    IN IF i < EmittedBy(item)
       THEN [start_line |-> IF item.rule = "instruction_e"
                            THEN item.start_line + i * item.line_count
                            ELSE item.start_line,
             line_count |-> item.line_count]
       ELSE StatementOf(Tail(items), i - EmittedBy(item))

\* C23: after a successful assembly the source map has one entry for each
\* emitted instruction, and entry i is the (start_line, line_count) of the
\* statement that emitted instruction i; the two instructions of a
\* shorthand carry the same entry.  The entries compared are the first,
\* the middle and the last of every statement or run of statements
C23_SourceMapPerInstruction ==
    assembler.result = "ok" =>
        /\ SourceMapLen(assembler.source_map) = parsed_len(assembler.instr)
        /\ \A k \in 1..Len(assembler.instructions) :
             LET first == EmittedBefore(assembler.instructions, k)
                 count == EmittedBy(assembler.instructions[k])
             IN \A i \in {first, first + (count \div 2), first + count - 1} :
                  /\ i < SourceMapLen(assembler.source_map)
                  /\ SourceMapEntry(assembler.source_map, i)
                       = StatementOf(assembler.instructions, i)

\* an assembled source with a data element, whose LDA on line 4 gives the
\* entries 0 and 1 of the source map and whose HALT gives the last entry
C23_Witness ==
    /\ assembler.result = "ok"
    /\ Len(assembler.data) = 1
    /\ assembler.instructions[1].rule = "instruction_lda"
    /\ SourceMapLen(assembler.source_map) = 4
    /\ SourceMapEntry(assembler.source_map, 0)
         = [start_line |-> 4, line_count |-> 1]
    /\ SourceMapEntry(assembler.source_map, 1)
         = [start_line |-> 4, line_count |-> 1]
    /\ SourceMapEntry(assembler.source_map, 3)
         = [start_line |-> 6, line_count |-> 2]

\* C24: for every 32-bit value v and every destination rd other than ZERO,
\* executing the two instructions the assembler emits for `LWI rd, v` (SLO
\* with v[15:0], then SHI with v[31:16]) leaves rd equal to v, whatever rd
\* held before
C24_LwiLoadsValue ==
    \A j \in 1..Len(assembler.instructions) :
    \A m \in 1..(Len(assembler.words) - 1) :
        LET item == assembler.instructions[j]
            slo == assembler.words[m]
            shi == assembler.words[m + 1]
        IN (/\ item.rule = "instruction_lwi"
            /\ item.reg # "ZERO"
            /\ slo.index = EmittedBefore(assembler.instructions, j)
            /\ slo.res = "ok"
            /\ shi.res = "ok")
               => \A held \in {0, -1, 252645135, MinI32} :
                    LET first == logic_tick(
                                     register_mut_set(ZeroRegisters, item.reg,
                                                      held),
                                     Plain(<< >>), slo.word,
                                     slo.index * WORD_BYTES, 0)
                        second == logic_tick(first.registers, first.storage,
                                             shi.word, shi.index * WORD_BYTES,
                                             0)
                    IN /\ first.result = TickNext
                       /\ second.result = TickNext
                       /\ second.registers
                            = register_mut_set(ZeroRegisters, item.reg,
                                               item.value)

\* an assembled `LWI $RA, 0x7FFF8000` after another shorthand: the low half
\* has its top bit set, the high half has not
C24_Witness ==
    /\ assembler.result = "ok"
    /\ Len(assembler.instructions) = 3
    /\ assembler.instructions[2].rule = "instruction_lwi"
    /\ assembler.instructions[2].reg = "RA"
    /\ assembler.instructions[2].value = 2147450880
    /\ Len(assembler.words) = 5

\* ------------------------------------------------------------------------
\* One instruction on chosen operands: specification ExecSpec.  The host
\* has set T0, T1 and T2 with register_mut, loaded a program of one word
\* and ticks once.  The words take T0 as rs1 and T1 as rs2 (a store takes
\* T1 as rd); the storages are the two of Init and a plain buffer of
\* 0xFFFF_FFFF zero bytes
\* ------------------------------------------------------------------------
ExecInit ==
    LET Operands == {0, 1, -1, 5, -3, 33, 65535, 305419896, MinI32, MaxI32}
        Seconds == {0, -1, 7, 33, 305419896, MinI32}
        Destinations == {"T2", "ZERO", "RM"}
        ExecMenu ==
            {make_alu_instruction(f, rd, "T0", "T1") :
                f \in {"MUL", "DIV"}, rd \in Destinations}
            \cup {make_alu_instruction(f, "T2", "T0", "T1") :
                    f \in {"SLL", "SRL", "SRA"}}
            \cup {make_i_instruction("MULI", "T2", "T0", imm) :
                    imm \in {-3, 32767}}
            \cup {make_i_instruction("DIVI", "T2", "T0", imm) :
                    imm \in {0, -1, 7}}
            \cup {make_i_instruction(oc, "T2", "T0", imm) :
                    oc \in {"SLLI", "SRLI", "SRAI"}, imm \in {1, 33, -1}}
            \cup {make_i_instruction(oc, "T2", "T0", imm) :
                    oc \in {"SLTUI", "SGTUI", "SLEUI", "SGEUI"},
                    imm \in {5, -1, -32768}}
            \cup {make_i_instruction(oc, "T1", "T0", imm) :
                    oc \in {"SB", "SH", "SW"}, imm \in {0, -1, 6}}
            \cup InstrMenu
    IN /\ \E a \in Operands, b \in Seconds :
            registers =
                register_mut_set(
                    register_mut_set(
                        register_mut_set(ZeroRegisters, "T0", a), "T1", b),
                    "T2", 77)
       /\ program_counter = 0
       /\ state = "None"
       /\ \E word \in ExecMenu : instructions = instructions_from_words(<< word >>)
       /\ storage \in InitStorages
                        \cup {[kind |-> "vast", length |-> -1,
                               bytes |-> EmptyMap]}
       /\ fragments = << >>
       /\ registry = EmptyMap
       /\ overflow_checks \in BOOLEAN
       /\ panicked = FALSE
       /\ steps = MaxSteps - 1
       /\ assembler = NoAssembler
       /\ last = [op |-> "init"]

ExecNext == Tick

ExecSpec == ExecInit /\ [][ExecNext]_vars

\* the fields of the word the last tick executed; imm is the immediate
\* sign-extended, imm_u zero-extended
Executed ==
    LET pc == last.pre.program_counter
        word == FromBytes(SubSeq(instructions, pc + 1, pc + WORD_BYTES))
        immediate == Field(word, IMMEDIATE_MASK, IMMEDIATE_OFFSET)
        opcode == from_u32(Opcode, Field(word, OPCODE_MASK, OPCODE_OFFSET))
    IN [op |-> IF opcode = "ALU"
               THEN from_u32(AluFunct, Field(word, FUNCT_MASK, FUNCT_OFFSET))
               ELSE opcode,
        rd |-> Field(word, RD_MASK, RD_OFFSET),
        rs1 |-> last.pre.registers[Field(word, RS1_MASK, RS1_OFFSET)],
        rs2 |-> last.pre.registers[Field(word, RS2_MASK, RS2_OFFSET)],
        imm |-> IF immediate >= Pow2(15) THEN immediate - Pow2(16)
                ELSE immediate,
        imm_u |-> immediate]

\* the last tick executed an instruction with one of the mnemonics
Ran(mnemonics) == RanTick /\ Executed.op \in mnemonics

\* hi * 2^32 + lo (lo as a u32) is the product a * b of two i32: both lie
\* within 2^63 of 0, so they are equal when they agree modulo five primes
\* whose product exceeds 2^65
IsProduct(hi, lo, a, b) ==
    \A p \in {46337, 46327, 46309, 46307, 46301} :
        LET two32 == ((Pow2(16) % p) * (Pow2(16) % p)) % p
            lo_u == ((lo % p) + (IF lo < 0 THEN two32 ELSE 0)) % p
        IN ((((hi % p) * two32) % p) + lo_u) % p = ((a % p) * (b % p)) % p

\* C25: MUL and MULI compute the signed 64-bit product of their operands;
\* its high 32 bits go to RM and, when rd is neither ZERO nor RM, its low 32
\* bits go to rd
C25_MulProduct ==
    Ran({"MUL", "MULI"}) =>
        LET x == Executed
            factor == IF x.op = "MUL" THEN x.rs2 ELSE x.imm
        IN /\ last.result = TickNext
           /\ \E lo \in {IF x.rd \in {0, RM} THEN MulLo(x.rs1, factor)
                         ELSE registers[x.rd]} :
                IsProduct(registers[RM], lo, x.rs1, factor)

\* a product of two negative operands that does not fit 32 bits, its low
\* word in T2: 0xFFFFFFFF * 0x80000000 as signed numbers is 2^31
C25_Witness ==
    /\ Ran({"MUL"})
    /\ Executed.rd = register_index("T2")
    /\ Executed.rs1 = -1
    /\ Executed.rs2 = MinI32
    /\ registers[RM] = 0
    /\ registers[register_index("T2")] = MinI32

\* q and r are the quotient and the remainder of the signed division of a
\* by b # 0, the quotient rounded toward zero and taken modulo 2^32: r is 0
\* or has the sign of a, r is smaller than b in magnitude, and q * b is
\* a - r
IsQuotient(q, r, a, b) ==
    IF a = MinI32 /\ b = -1 THEN q = MinI32 /\ r = 0
    ELSE /\ (r = 0 \/ (r < 0) = (a < 0))
         /\ r # MinI32
         /\ (b # MinI32 =>
               (IF r < 0 THEN -r ELSE r) < (IF b < 0 THEN -b ELSE b))
         /\ IsProduct(IF a - r < 0 THEN -1 ELSE 0, a - r, q, b)

\* the divisor of the DIV or DIVI the last tick executed
Divisor == IF Executed.op = "DIV" THEN Executed.rs2 ELSE Executed.imm

\* C26 as stated: DIV and DIVI terminate with DivisionByZero exactly when
\* the divisor is 0; otherwise the signed quotient is in rd and the
\* remainder in RM after the tick, whose outcome is Next
C26_DivQuotientInRd ==
    Ran({"DIV", "DIVI"}) =>
        /\ (last.result = TickStop("DivisionByZero")) <=> (Divisor = 0)
        /\ Divisor # 0 =>
             /\ last.result = TickNext
             /\ IsQuotient(registers[Executed.rd], registers[RM],
                           Executed.rs1, Divisor)

\* C26, amended: DIV and DIVI terminate with DivisionByZero exactly when the
\* divisor is 0; otherwise the outcome is Next, the remainder is in RM and,
\* when rd is neither ZERO nor RM, the signed quotient is in rd
C26_DivQuotientUnlessZeroOrRM ==
    Ran({"DIV", "DIVI"}) =>
        /\ (last.result = TickStop("DivisionByZero")) <=> (Divisor = 0)
        /\ Divisor # 0 =>
             /\ last.result = TickNext
             /\ \E q \in {IF Executed.rd \in {0, RM}
                          THEN Div32(Executed.rs1, Divisor)
                          ELSE registers[Executed.rd]} :
                  IsQuotient(q, registers[RM], Executed.rs1, Divisor)

\* -2^31 divided by 7 into T2: the quotient -306783378 rounds toward zero
\* and the remainder -2 has the sign of the dividend
C26_Witness ==
    /\ Ran({"DIV"})
    /\ Executed.rd = register_index("T2")
    /\ Executed.rs1 = MinI32
    /\ Executed.rs2 = 7
    /\ registers[register_index("T2")] = -306783378
    /\ registers[RM] = -2

\* the byte at a u32 address of the bytes of a storage, as Snapshot holds
\* them: a sequence, or the written bytes of a vast buffer of zeros
ByteAt(bytes, address) ==
    IF storage.kind = "vast"
    THEN (IF address \in DOMAIN bytes THEN bytes[address] ELSE 0)
    ELSE bytes[address + 1]

\* C27: SB, SH and SW rd, imm(rs1) write the low 8, 16 and 32 bits of rd,
\* little-endian, at the address (rs1 + sign-extended imm) mod 2^32 and
\* change no other byte and no register; when the bytes from that address
\* are not in range (address + size <= length, without overflow) the tick
\* terminates with BadMemoryAccess
C27_StoreWritesOrFails ==
    (last.op = "tick" /\ last.ran /\ Executed.op \in {"SB", "SH", "SW"}) =>
        LET size == CASE Executed.op = "SB" -> BYTE_BYTES
                      [] Executed.op = "SH" -> HALF_BYTES
                      [] Executed.op = "SW" -> WORD_BYTES
            address == Add32(Executed.rs1, Executed.imm)
            length == Storage_length(storage)
            slice == {Add32(address, i) : i \in 0..(size - 1)}
            in_range == /\ ULe(address, length)
                        /\ ~UAddOverflows(address, size)
                        /\ ULe(Add32(address, size), length)
            written == IF storage.kind = "vast"
                       THEN DOMAIN StorageBytes(storage)
                       ELSE 0..(length - 1)
        IN /\ ~panicked
           /\ registers = last.pre.registers
           /\ IF in_range
              THEN /\ last.result = TickNext
                   /\ \A i \in 0..(size - 1) :
                        ByteAt(StorageBytes(storage), Add32(address, i))
                          = ByteOf(last.pre.registers[Executed.rd], i)
                   /\ \A a \in written \ slice :
                        ByteAt(StorageBytes(storage), a)
                          = ByteAt(last.pre.bytes, a)
              ELSE /\ last.result = TickStop("BadMemoryAccess")
                   /\ StorageBytes(storage) = last.pre.bytes

\* C28: SLTUI, SGTUI, SLEUI and SGEUI compare rs1 as an unsigned 32-bit
\* value with the immediate zero-extended from 16 bits (a value in
\* 0..65535, never sign-extended) and set rd, when it is not ZERO, to 1 if
\* the comparison holds and to 0 otherwise.  A word with its top bit set is
\* at least 2^31 as an unsigned value, so above every immediate
C28_UnsignedImmediateCompare ==
    Ran({"SLTUI", "SGTUI", "SLEUI", "SGEUI"}) =>
        LET x == Executed
            below == x.rs1 >= 0 /\ x.rs1 < x.imm_u
            equal == x.rs1 = x.imm_u
            holds == CASE x.op = "SLTUI" -> below
                       [] x.op = "SGTUI" -> ~below /\ ~equal
                       [] x.op = "SLEUI" -> below \/ equal
                       [] x.op = "SGEUI" -> ~below
        IN /\ x.imm_u \in 0..65535
           /\ last.result = TickNext
           /\ x.rd # 0 =>
                registers = [last.pre.registers EXCEPT
                               ![x.rd] = IF holds THEN 1 ELSE 0]

\* SLTUI with the immediate 0xFFFF and rs1 = 33: 33 is below 65535, and is
\* not below the sign extension -1 taken as a signed number
C28_Witness ==
    /\ Ran({"SLTUI"})
    /\ Executed.imm_u = 65535
    /\ Executed.rs1 = 33
    /\ Executed.rd = register_index("T2")
    /\ registers[register_index("T2")] = 1

\* C29: decode and dispatch are total: for every instruction word, every
\* register content, every program counter and every storage the step
\* returns Next, Jump or Stop and does not panic, and every register holds
\* a 32-bit value afterwards (the integer results are taken modulo 2^32)
C29_DispatchIsTotal ==
    (last.op = "tick" /\ last.ran /\ last.result # NotDecoded) =>
        /\ last.result.kind \in {"Next", "Jump", "Stop"}
        /\ ~panicked
        /\ \A i \in DOMAIN registers :
             registers[i] >= MinI32 /\ registers[i] <= MaxI32

\* bit i (0..31) of a word
BitOf(x, i) == IF i = 31 THEN (IF x < 0 THEN 1 ELSE 0) ELSE (x \div Pow2(i)) % 2

\* C30: SLL, SRL and SRA shift rs1 by the low 5 bits of rs2, and SLLI, SRLI
\* and SRAI by the low 5 bits of the immediate: bit i of the result is bit
\* i - n of rs1 for a left shift and bit i + n for a right shift; the bits
\* that come from outside the word are 0, and for SRA and SRAI the sign bit
C30_ShiftByLowFiveBits ==
    Ran({"SLL", "SRL", "SRA", "SLLI", "SRLI", "SRAI"}) =>
        LET x == Executed
            n == IF x.op \in {"SLL", "SRL", "SRA"} THEN x.rs2 % 32
                 ELSE x.imm_u % 32
            fill == IF x.op \in {"SRA", "SRAI"} THEN BitOf(x.rs1, 31) ELSE 0
            expected(i) ==
                IF x.op \in {"SLL", "SLLI"}
                THEN (IF i >= n THEN BitOf(x.rs1, i - n) ELSE 0)
                ELSE (IF i + n <= 31 THEN BitOf(x.rs1, i + n) ELSE fill)
        IN /\ last.result = TickNext
           /\ x.rd # 0 =>
                /\ \A i \in 0..31 : BitOf(registers[x.rd], i) = expected(i)
                /\ \A r \in DOMAIN registers \ {x.rd} :
                     registers[r] = last.pre.registers[r]

\* SRA of 0x80000000 by rs2 = 33: the amount is 1 and the sign is kept
C30_Witness ==
    /\ Ran({"SRA"})
    /\ Executed.rs1 = MinI32
    /\ Executed.rs2 = 33
    /\ Executed.rd = register_index("T2")
    /\ registers[register_index("T2")] = -1073741824

\* ------------------------------------------------------------------------
\* The instruction constructors (src/src/instructions.rs): specification
\* CodecSpec.  A host builds one word with make_r_instruction,
\* make_i_instruction or make_j_instruction; last records the arguments and
\* the word
\* ------------------------------------------------------------------------
CodecInit ==
    /\ IdleProcessor
    /\ storage = Plain(<< >>)
    /\ fragments = << >>
    /\ registry = EmptyMap
    /\ overflow_checks \in BOOLEAN
    /\ panicked = FALSE
    /\ steps = 0
    /\ assembler = NoAssembler
    /\ last = [op |-> "init"]

Make ==
    /\ steps = 0
    /\ \/ \E oc \in {"ALU", "FLOP"}, rd \in {"ZERO", "T0", "RA"},
             rs1 \in {"ZERO", "T1", "RM"}, rs2 \in {"ZERO", "SP", "RA"} :
           \E funct \in IF oc = "ALU" THEN 1..Len(AluFunct)
                        ELSE 1..Len(FlopFunct) :
             last' = [op |-> "make_r", oc |-> oc, rd |-> rd, rs1 |-> rs1,
                      rs2 |-> rs2, funct |-> funct - 1,
                      word |-> make_r_instruction(oc, rd, rs1, rs2, funct - 1)]
       \/ \E i \in 1..Len(Opcode), rd \in {"ZERO", "T0", "RA"},
             rs1 \in {"ZERO", "T1", "RM"},
             immediate \in {-Pow2(15), -1, 0, 1, 4660, Pow2(15) - 1} :
             last' = [op |-> "make_i", oc |-> Opcode[i], rd |-> rd,
                      rs1 |-> rs1, immediate |-> immediate,
                      word |-> make_i_instruction(Opcode[i], rd, rs1,
                                                  immediate)]
       \/ \E i \in 1..Len(Opcode),
             address \in {-Pow2(25), -Pow2(25) + 1, -4, -1, 0, 4, 305419,
                          Pow2(25) - 4, Pow2(25) - 1} :
             last' = [op |-> "make_j", oc |-> Opcode[i], address |-> address,
                      word |-> make_j_instruction(Opcode[i], address)]
    /\ steps' = steps + 1
    /\ UNCHANGED << registers, program_counter, state, instructions, storage,
                    fragments, registry, overflow_checks, panicked, assembler >>

CodecSpec == CodecInit /\ [][Make]_vars

\* C31: the word built by make_r_instruction, make_i_instruction or
\* make_j_instruction from an opcode, register ids, an ALU or FLOP funct, a
\* 16-bit immediate or an address in -2^25 .. 2^25 - 1 decodes, with the
\* masks, the offsets and the 26-bit sign extension of the decode step, to
\* the same opcode, rd, rs1, rs2, funct, immediate and address
C31_FieldsRoundTrip ==
    last.op \in {"make_r", "make_i", "make_j"} =>
        LET field(mask, offset) == Field(last.word, mask, offset)
            imm_u16 == field(IMMEDIATE_MASK, IMMEDIATE_OFFSET)
            imm_i16 == IF imm_u16 >= Pow2(15) THEN imm_u16 - Pow2(16)
                       ELSE imm_u16
        IN /\ from_u32(Opcode, field(OPCODE_MASK, OPCODE_OFFSET)) = last.oc
           /\ last.op \in {"make_r", "make_i"} =>
                /\ field(RD_MASK, RD_OFFSET) = register_index(last.rd)
                /\ field(RS1_MASK, RS1_OFFSET) = register_index(last.rs1)
           /\ last.op = "make_r" =>
                /\ field(RS2_MASK, RS2_OFFSET) = register_index(last.rs2)
                /\ field(FUNCT_MASK, FUNCT_OFFSET) = last.funct
           /\ last.op = "make_i" => imm_i16 = last.immediate
           /\ last.op = "make_j" =>
                extend_address(field(ADDRESS_MASK, ADDRESS_OFFSET))
                    = last.address

\* a J-format word of the last opcode with the least address, -2^25
C31_Witness ==
    /\ last.op = "make_j"
    /\ last.oc = "FLOP"
    /\ last.address = -Pow2(25)
    /\ extend_address(Field(last.word, ADDRESS_MASK, ADDRESS_OFFSET))
         = -Pow2(25)

\* ------------------------------------------------------------------------
\* The executable file format (src/vex/src/lib.rs): specification VexSpec.
\* An Executable is [data_offset, instructions, data]; a stream is the
\* sequence of bytes a writer received or a reader delivers
\* ------------------------------------------------------------------------
\* write with the two length headers exchanged
vex_write_lengths_swapped(executable) ==
    ToBytes(Len(executable.data), 4)
        \o ToBytes(Len(executable.instructions), 4)
        \o ToBytes(executable.data_offset, 4)
        \o executable.instructions \o executable.data
\* write: instructions.len() as u32, data.len() as u32 and data_offset as
\* little-endian u32, then the instruction bytes, then the data bytes
vex_write(executable) ==
    ToBytes(Len(executable.instructions), 4)
        \o ToBytes(Len(executable.data), 4)
        \o ToBytes(executable.data_offset, 4)
        \o executable.instructions \o executable.data

\* read: three little-endian u32 (instr_len, data_length, data_offset),
\* then read_exact of instr_len bytes and of data_length bytes; a stream
\* that ends early is an error (UnexpectedEof)
vex_read(stream) ==
    LET failed == [res |-> "err",
                   executable |-> [data_offset |-> 0, instructions |-> << >>,
                                   data |-> << >>]]
        u32(at) == FromBytes(SubSeq(stream, at + 1, at + 4))
    IN IF Len(stream) < 12 THEN failed
       ELSE LET instr_len == u32(0)
                data_length == u32(4)
                data_offset == u32(8)
            IN IF ULt(Len(stream) - 12, instr_len) THEN failed
               ELSE IF ULt(Len(stream) - 12 - instr_len, data_length)
               THEN failed
               ELSE [res |-> "ok",
                     executable |->
                       [data_offset |-> data_offset,
                        instructions |-> SubSeq(stream, 13, 12 + instr_len),
                        data |-> SubSeq(stream, 13 + instr_len,
                                        12 + instr_len + data_length)]]

\* Executable::from(data_offset, instructions, data), the arguments drawn
\* from a few offsets and byte vectors
VexInit ==
    LET Bytes == {<< >>, << 255 >>, << 1, 2, 3, 4 >>,
                  << 30, 27, 34, 50, 91 >>, << 0, 0, 0, 0, 0, 0, 0, 128 >>}
    IN /\ IdleProcessor
       /\ storage = Plain(<< >>)
       /\ fragments = << >>
       /\ registry = EmptyMap
       /\ overflow_checks \in BOOLEAN
       /\ panicked = FALSE
       /\ steps = 0
       /\ assembler = NoAssembler
       /\ \E data_offset \in {0, 1, 65540, -1, MinI32},
             instrs \in Bytes, data \in Bytes :
            last = [op |-> "from", stream |-> << >>,
                    executable |-> [data_offset |-> data_offset,
                                    instructions |-> instrs, data |-> data]]

\* write(&mut writer, &executable) into an empty writer
VexWrite ==
    /\ last.op = "from"
    /\ last' = [op |-> "write", executable |-> last.executable,
                stream |-> vex_write(last.executable)]
    /\ steps' = steps + 1
    /\ UNCHANGED << registers, program_counter, state, instructions, storage,
                    fragments, registry, overflow_checks, panicked, assembler >>

\* read(&mut reader) from a reader that delivers the written stream, whole
\* or cut short by cut bytes
VexRead ==
    /\ last.op = "write"
    /\ \E cut \in {0, 1, 4} :
         /\ cut <= Len(last.stream)
         /\ last' = [op |-> "read", executable |-> last.executable,
                     stream |-> last.stream, cut |-> cut,
                     result |-> vex_read(SubSeq(last.stream, 1,
                                                Len(last.stream) - cut))]
    /\ steps' = steps + 1
    /\ UNCHANGED << registers, program_counter, state, instructions, storage,
                    fragments, registry, overflow_checks, panicked, assembler >>

VexNext == VexWrite \/ VexRead

VexSpec == VexInit /\ [][VexNext]_vars

\* C32: reading back the byte stream that write produced for an executable
\* yields an executable equal to the original: the same data_offset, the
\* same instruction bytes and the same data bytes
C32_WriteThenRead ==
    (last.op = "read" /\ last.cut = 0)
        => /\ last.result.res = "ok"
           /\ last.result.executable = last.executable

\* an executable with five instruction bytes, one data byte and the offset
\* 0xFFFF_FFFF, written as 18 bytes and read back
C32_Witness ==
    /\ last.op = "read"
    /\ last.cut = 0
    /\ Len(last.stream) = 18
    /\ last.executable.data_offset = -1
    /\ Len(last.executable.instructions) = 5
    /\ last.result.executable.data = << 255 >>

\* ------------------------------------------------------------------------
\* Processor::run (src/src/processor.rs): specifications RunSpec and
\* FairRunSpec.  One step is one pass through the body of run's loop
\* ------------------------------------------------------------------------
\* what one pass of the loop leaves, t being what the tick left: the
\* processor and the storage, and whether run returns
always_returned(t) == [shell |-> t, returned |-> TRUE]
returned_if_some(t) ==
    [shell |-> t, returned |-> ~t.panicked /\ t.state # "None"]
\* a loop body that returns whatever the tick returned
run_iteration_returns_always(regs, pc, st, instrs, stor, fval) ==
    always_returned(tick(regs, pc, st, instrs, stor, fval))
\* if let Some(exit_code) = self.tick(instructions, storage) { return exit_code; }
run_iteration(regs, pc, st, instrs, stor, fval) ==
    returned_if_some(tick(regs, pc, st, instrs, stor, fval))

\* the counted store loop of instructions_loop (src/src/test.rs)
LoopIterations == 32
\* the passes of run that are followed: the store loop returns in its 195th
MaxPasses == 200
LoopStorageLen == 128
LoopProgram ==
    instructions_from_words(
        << make_i_instruction("SLTI", "T2", "T0", LoopIterations),
           make_i_instruction("BEZ", "ZERO", "T2", 20),
           make_i_instruction("SLLI", "T1", "T0", 2),
           make_i_instruction("SW", "T0", "T1", 0),
           make_i_instruction("ADDI", "T0", "T0", 1),
           make_j_instruction("JMP", -20),
           make_i_instruction("HALT", "ZERO", "ZERO", 0) >>)
NopProgram == instructions_from_words(<< nop, nop, nop >>)

\* the instruction buffers run is called with
RunPrograms ==
    { LoopProgram, NopProgram, << >>, VastInstructions,
      instructions_from_words(<< make_i_instruction("HALT", "ZERO", "ZERO", 0) >>),
      instructions_from_words(<< nop, make_j_instruction("JMP", -4) >>),
      instructions_from_words(<< make_i_instruction("ADDI", "T0", "T0", 1),
                                 make_i_instruction("DIVI", "T1", "T0", 0) >>),
      instructions_from_words(<< make_i_instruction("SW", "T0", "T0", 126), nop >>),
      instructions_from_words(<< nop, nop >>) \o << 0, 0 >> }

\* the processor run is called on: T0 as the host left it, running or
\* already stopped
RunInit ==
    /\ \E t0 \in {0, 1, 30, 33, -1} :
         registers = register_mut_set(ZeroRegisters, "T0", t0)
    /\ program_counter = 0
    /\ state \in {"None", "Halted"}
    /\ instructions \in RunPrograms
    /\ storage = Plain(Memory_new(LoopStorageLen))
    /\ fragments = << >>
    /\ registry = EmptyMap
    /\ overflow_checks \in BOOLEAN
    /\ panicked = FALSE
    /\ steps = 0
    /\ assembler = NoAssembler
    /\ last = [op |-> "run", iterations |-> 0, returned |-> FALSE,
               exit_code |-> "None",
               start |-> Shell(registers, program_counter, state, storage,
                               NotDecoded, FALSE)]

\* one pass through the loop of processor.run(&instructions, &mut storage)
RunIterate ==
    /\ ~panicked
    /\ ~last.returned
    /\ last.iterations < MaxPasses
    /\ \E r \in {run_iteration(registers, program_counter, state, instructions,
                               storage, 0)} :
         /\ registers' = r.shell.registers
         /\ program_counter' = r.shell.program_counter
         /\ state' = IF r.shell.panicked THEN state ELSE r.shell.state
         /\ storage' = r.shell.storage
         /\ panicked' = r.shell.panicked
         /\ last' = [last EXCEPT !.iterations = @ + 1,
                                 !.returned = r.returned,
                                 !.exit_code = r.shell.state]
    /\ steps' = steps + 1
    /\ UNCHANGED << instructions, fragments, registry, overflow_checks,
                    assembler >>

RunSpec == RunInit /\ [][RunIterate]_vars

\* a pass of the loop, by its guard and its count alone: every RunIterate
\* step is a RunPass step, and RunPass is enabled exactly when RunIterate is
RunPass ==
    /\ ~panicked
    /\ ~last.returned
    /\ last.iterations < MaxPasses
    /\ steps' = steps + 1

\* run is a loop without a wait: a pass that can be made is made
FairRunSpec == RunSpec /\ WF_steps(RunPass)

\* run was called on a fresh processor with the store loop
LoopRun ==
    /\ instructions = LoopProgram
    /\ last.start.registers = ZeroRegisters
    /\ last.start.program_counter = 0
    /\ last.start.state = "None"
    /\ StorageBytes(last.start.storage) = Memory_new(LoopStorageLen)
LoopDone ==
    /\ last.returned
    /\ last.exit_code = "Halted"
    /\ state = "Halted"
    /\ \A i \in 0..(LoopIterations - 1) :
         FromBytes(SubSeq(StorageBytes(storage), 4 * i + 1, 4 * i + 4)) = i

\* C33: the seven-instruction store loop, run from a fresh processor over a
\* zeroed 128-byte plain buffer, stops after finitely many ticks with Halted,
\* and then the little-endian word at address 4*i is i for every i in 0..31
C33_LoopHalts == LoopRun ~> LoopDone

\* the loop has stopped with Halted and the 32 words are in the buffer
C33_Witness == LoopRun /\ LoopDone /\ registers[register_index("T0")] = 32

\* the processor after n calls of tick from shell, the calls made in two
\* halves; a call after a panic is never made
RECURSIVE TickTimes(_, _, _)
TickTimes(shell, instrs, n) ==
    IF n = 0 \/ shell.panicked THEN shell
    ELSE IF n = 1
    THEN tick(shell.registers, shell.program_counter, shell.state, instrs,
              shell.storage, 0)
    ELSE CHOOSE r \in
           { TickTimes(half, instrs, n - (n \div 2)) :
               half \in {TickTimes(shell, instrs, n \div 2)} } : TRUE

\* C34: run returns the exit code c exactly when repeated tick from the same
\* starting state first returns the terminal code c, and then with the same
\* registers, program counter and storage; as long as no tick has produced a
\* terminal code run has not returned, and on a buffer of NOPs it never does
C34_RunIsRepeatedTick ==
    /\ (last.returned /\ ~panicked) =>
         \E before \in {TickTimes(last.start, instructions,
                                  last.iterations - 1)},
            after \in {TickTimes(last.start, instructions, last.iterations)} :
            /\ ~before.panicked
            /\ last.iterations > 1 => before.state = "None"
            /\ ~after.panicked
            /\ after.state # "None"
            /\ after.state = last.exit_code
            /\ after.registers = registers
            /\ after.program_counter = program_counter
            /\ after.storage = storage
    /\ (last.iterations > 0 /\ ~last.returned /\ ~panicked) => state = "None"
    /\ (instructions = NopProgram /\ last.start.state = "None")
         => ~last.returned /\ ~panicked

\* run has returned DivisionByZero at its second pass
C34_Witness ==
    /\ last.returned
    /\ last.iterations = 2
    /\ last.exit_code = "DivisionByZero"
    /\ registers[register_index("T0")] = 1

\* ------------------------------------------------------------------------
\* Processor::reset, checked in Spec
\* ------------------------------------------------------------------------
\* C35: after reset(), called in any state, all 32 registers are 0, the
\* program counter is 0 and no terminal code is set: the processor is in the
\* state of a freshly constructed one
C35_ResetIsFresh ==
    last.op = "reset" =>
        /\ \A i \in 0..(REGISTER_COUNT - 1) : registers[i] = 0
        /\ program_counter = 0
        /\ state = "None"
        /\ reset(last.pre.registers, last.pre.program_counter, last.pre.state)
             = [registers |-> ZeroRegisters, program_counter |-> 0,
                state |-> "None"]

\* reset was called on a stopped processor with a register set
C35_Witness ==
    /\ last.op = "reset"
    /\ last.pre.state = "Halted"
    /\ last.pre.registers[register_index("T0")] = 3
    /\ last.pre.program_counter = 4

\* C36: with an instruction buffer whose length is a positive multiple of 4,
\* in every reachable running state the program counter is a multiple of 4
\* and below the length of the buffer, so that no tick stops with
\* BadProgramCounter
C36_ProgramCounterInBuffer ==
    (\/ instructions = VastInstructions
     \/ (Len(instructions) > 0 /\ Len(instructions) % WORD_BYTES = 0)) =>
        /\ (state = "None" /\ ~panicked) =>
              /\ program_counter % WORD_BYTES = 0
              /\ program_counter >= 0
              /\ \/ instructions = VastInstructions
                 \/ program_counter < Len(instructions)
        /\ state # "BadProgramCounter"

\* C37: a write of a non-zero value to register index 0 through the host's
\* register setter has no effect: the registers are as they were, ZERO reads
\* 0 afterwards
C37_HostWriteToZeroIgnored ==
    (last.op = "set" /\ last.id = "ZERO" /\ last.value # 0) =>
        /\ registers = last.pre.registers
        /\ last.pre.registers[register_index("ZERO")] = 0
             => registers[register_index("ZERO")] = 0

\* ------------------------------------------------------------------------
\* The stack shorthands executed: specification StackSpec.  The buffer
\* holds the words process_instruction emits for PUSH rs and then POP rd
\* ------------------------------------------------------------------------
\* process_instructions without labels: process_instruction for one
\* statement after the other
RECURSIVE process_statements(_, _)
process_statements(instr, items) ==
    IF items = << >> THEN instr
    ELSE process_statements(
             process_instruction(instr, EmptyMap, 0, Head(items)).instr,
             Tail(items))

\* the bytes of the words the assembler has emitted
parsed_words(instr) ==
    instructions_from_words([i \in 1..Len(instr) |-> instr[i].word])

StackInit ==
    /\ \E rs \in {"T0", "RA", "SP"}, rd \in {"T0", "T1", "RM", "ZERO"},
          value \in {305419896, -1}, sp \in {0, 4, 6, 8, 12} :
         /\ registers = register_mut_set(
                            register_mut_set(ZeroRegisters, rs, value),
                            "SP", sp)
         /\ \E popped \in {process_statements(
                               << >>,
                               << [rule |-> "instruction_push", reg |-> rs],
                                  [rule |-> "instruction_pop", reg |-> rd] >>)} :
               instructions = parsed_words(popped)
         /\ last = [op |-> "stack", rs |-> rs, rd |-> rd,
                    start |-> registers]
    /\ program_counter = 0
    /\ state = "None"
    /\ storage \in { Plain(Memory_new(StorageLen)) }
                     \cup { Observed(IOMemory_new(StorageLen, h)) :
                              h \in Handlers }
    /\ fragments = << >>
    /\ registry = EmptyMap
    /\ overflow_checks \in BOOLEAN
    /\ panicked = FALSE
    /\ steps = 0
    /\ assembler = NoAssembler

\* the host calls processor.tick(&instructions, &mut storage) once for each
\* word of the buffer
StackTick ==
    /\ ~panicked
    /\ steps < Len(instructions) \div WORD_BYTES
    /\ \E r \in {tick(registers, program_counter, state, instructions,
                      storage, 0)} :
         /\ registers' = r.registers
         /\ program_counter' = r.program_counter
         /\ state' = IF r.panicked THEN state ELSE r.state
         /\ storage' = r.storage
         /\ panicked' = r.panicked
    /\ steps' = steps + 1
    /\ UNCHANGED << instructions, fragments, registry, overflow_checks,
                    assembler, last >>

StackSpec == StackInit /\ [][StackTick]_vars

\* SP >= 4, the bytes [SP-4, SP) in range, rs and rd neither SP nor ZERO
StackReady ==
    /\ last.op = "stack"
    /\ ULe(4, last.start[register_index("SP")])
    /\ ULe(last.start[register_index("SP")], Storage_length(storage))
    /\ last.rs \notin {"SP", "ZERO"}
    /\ last.rd \notin {"SP", "ZERO"}
\* all four words have been executed
StackDone == steps = Len(instructions) \div WORD_BYTES
\* rd holds the value of rs, SP is as at the start, no byte outside
\* [SP-4, SP) differs from the zeroed buffer
StackRestored ==
    /\ ~panicked
    /\ state = "None"
    /\ registers[register_index(last.rd)] = last.start[register_index(last.rs)]
    /\ registers[register_index("SP")] = last.start[register_index("SP")]
    /\ \A a \in 0..(StorageLen - 1) :
         (a < last.start[register_index("SP")] - 4
            \/ a >= last.start[register_index("SP")])
           => StorageBytes(storage)[a + 1] = 0
\* the storage commits a store to [SP-4, SP): a plain buffer, or an observed
\* one whose handler admits the write
StackStoreAdmitted ==
    \/ storage.kind = "plain"
    \/ /\ storage.kind = "io"
       /\ IOHandler_can_write(storage.io.handler, storage.io.memory,
                              Add32(last.start[register_index("SP")], -4), 4)

RepeatSources ==
    LET Label(name) == [kind |-> "Label", label |-> name]
        References ==
            {[label |-> "", rule |-> "instruction_br", opcode |-> oc,
              reg |-> "T0", target |-> Label("a")] : oc \in {"BEZ", "BNZ"}}
            \cup {[label |-> "", rule |-> "instruction_j", opcode |-> oc,
                   target |-> Label("a")] : oc \in {"JMP", "JL"}}
            \cup {[label |-> "", rule |-> r, reg |-> "T0",
                   target |-> Label(l)] :
                    r \in {"instruction_lda", "instruction_lia"},
                    l \in {"a", "d"}}
        Sections ==
            {<< [label |-> "a", rule |-> "instruction_e", opcode |-> "NOP",
                 count |-> n],
                ref,
                [label |-> l, rule |-> "instruction_e", opcode |-> "HALT",
                 count |-> 1] >> :
               n \in {1, 2, 3}, ref \in References, l \in {"a", "b"}}
        DataSections ==
            {<< >>,
             << [label |-> "d", size |-> 4], [label |-> "e", size |-> 2] >>,
             << [label |-> "d", size |-> 4], [label |-> "d", size |-> 2] >>}
        Spanned(section, first_line) ==
            [k \in 1..Len(section) |->
                [start_line |-> first_line + IF k = 1 THEN 0
                                             ELSE section[1].count + k - 2,
                 line_count |-> 1] @@ section[k]]
    IN {[data |-> data,
         instructions |-> Spanned(section, Len(data) + 3),
         data_offset |-> data_offset] :
          data \in DataSections, section \in Sections,
          data_offset \in {0, Pow2(16) + 4}}

RepeatInit ==
    /\ IdleProcessor
    /\ storage = Plain(<< >>)
    /\ fragments = << >>
    /\ registry = EmptyMap
    /\ overflow_checks \in BOOLEAN
    /\ panicked = FALSE
    /\ steps = 0
    /\ last = [op |-> "init"]
    /\ \E source \in RepeatSources :
         assembler = [phase |-> IF source.data = << >>
                                THEN "instructions" ELSE "data",
                      data |-> source.data,
                      instructions |-> source.instructions,
                      data_offset |-> source.data_offset, pos |-> 1,
                      data_len |-> 0, data_labels |-> EmptyMap,
                      instr |-> << >>, labels |-> EmptyMap,
                      source_map |-> << >>, words |-> << >>,
                      result |-> "none"]

RepeatSpec == RepeatInit /\ [][AsmNext]_vars

\* some label stands before two elements of the section
DefinedTwice(section) ==
    \E j, k \in 1..Len(section) :
        j < k /\ section[j].label # "" /\ section[j].label = section[k].label

\* C39: a source that defines the same label more than once in its
\* instructions section, or more than once in its data section, is not
\* assembled: the assembly ends with a diagnostic, never with a program
C39_RepeatedLabelRejected ==
    (DefinedTwice(assembler.instructions) \/ DefinedTwice(assembler.data))
        => assembler.result # "ok"

\* ------------------------------------------------------------------------
\* The key registry of the composite, checked in CompositeSpec
\* ------------------------------------------------------------------------
\* C40: in every composite reachable by mount and unmount, the index the
\* registry holds for a bound key is the position in the fragment list of
\* the child mounted under that key, so that unmount never indexes past the
\* end of the list and never panics
C40_RegistryIndexIsPosition ==
    /\ \A k \in DOMAIN registry :
         /\ registry[k] >= 0
         /\ registry[k] < Len(fragments)
         /\ fragments[registry[k] + 1].frag.id[1] = k
    /\ ~(last.op = "unmount" /\ last.res = "panic")

====
